---------------------------- MODULE Spec2Model ----------------------------
(***************************************************************************)
(* A model of the scripts of arxiv-doc-builder:                            *)
(*   scripts/pdf_converter_lib.py      parse_page_ranges, clean_text,      *)
(*                                     is_likely_header, is_likely_footer, *)
(*                                     extract_column_text,                *)
(*                                     extract_page_content,               *)
(*                                     convert_pdf_to_markdown             *)
(*   scripts/convert_pdf_extract.py        main (page-wise extractor)      *)
(*   scripts/convert_pdf_double_column.py  main (all pages, two columns)   *)
(*   scripts/fetch_paper.py                fetch_source, fetch_pdf, main   *)
(*   scripts/convert_latex.py              main and its helpers            *)
(*   scripts/convert_paper.py              run_script, main                *)
(*   scripts/convert_pdf_simple.py         main, extract_page_content      *)
(*   scripts/convert_pdf_split_columns.py  split_image_columns (the same   *)
(*                                         in convert_pdf_with_vision.py)  *)
(*                                                                         *)
(* Python strings are sequences of one-character strings.  The literal     *)
(* pieces of the f-strings that build the output ("<!-- Page ", " -->",    *)
(* ...) are kept as single atoms of such a sequence; everything that the   *)
(* code computes from text (split, strip, int, upper, str(i)) works on     *)
(* characters.  Non-ASCII characters are written by code point:            *)
(* "U+FB01" is the fi ligature, "U+FB02" fl, "U+FB00" ff, "U+00A9" the     *)
(* copyright sign, "U+0060" the backquote.  Optional[T] is a set with no   *)
(* element (None) or with one.                                             *)
(***************************************************************************)
EXTENDS Integers, Sequences, FiniteSets, TLC

VARIABLES
    \* ---- parse_page_ranges called on its own
    range_str,          \* the argument: Optional[str]
    parsed,             \* "pending", or the outcome of the call
    \* ---- extract_page_content / extract_column_text called on one page
    page,               \* the pdfplumber page
    call,               \* "none", or which function was called on the page
    page_content,       \* the string it returned
    \* ---- a run of convert_pdf_extract.py or convert_pdf_double_column.py
    script,             \* which entry point runs
    args,               \* argparse's namespace: pages, double_column_pages
    pdf,                \* the PDF file: its pages and its metadata
    pc,                 \* where the run stands
    pages_to_extract,   \* Optional[Set[int]] passed to convert_pdf_to_markdown
    double_column_pages,\* Set[int] passed to convert_pdf_to_markdown
    next_page,          \* the 1-based index enumerate() yields next
    markdown_parts,     \* the list of strings convert_pdf_to_markdown collects
    stdout,             \* the lines printed so far
    stderr,             \* the lines written to standard error (tracebacks)
    output_file,        \* Optional[str]: the content of output_path
    exit_code,          \* Optional[int]: the process's exit status
    \* ---- clean_text, is_likely_header, is_likely_footer called on a text
    text_arg,           \* the argument: Optional[str]
    text_call,          \* "none", or which function was called last
    text_result,        \* what it returned
    \* ---- a run of convert_paper.py, fetch_paper.py or convert_latex.py
    argv,               \* the command line: the script and its flags
    world,              \* what arXiv and the installed tools will answer
    files,              \* the paper directory: which files it holds
    procs,              \* the running scripts, the innermost last
    returncode,         \* Optional[int]: result.returncode of the last child
    commands,           \* the external commands run so far, in order
    terminal,           \* the lines printed so far, by parent and children
    status,             \* Optional[int]: the exit status of the command line
    \* ---- split_image_columns called on an image
    image,              \* the PIL image: its size
    num_columns,        \* the number of columns asked for
    columns             \* Optional[list]: the crops returned

parserVars == <<range_str, parsed>>
pageVars == <<page, call, page_content>>
runVars == <<script, args, pdf, pc, pages_to_extract, double_column_pages,
             next_page, markdown_parts, stdout, stderr, output_file, exit_code>>
textVars == <<text_arg, text_call, text_result>>
toolVars == <<argv, world, files, procs, returncode, commands, terminal, status>>
imageVars == <<image, num_columns, columns>>
vars == <<parserVars, pageVars, runVars, textVars, toolVars, imageVars>>

---------------------------------------------------------------------------
(* Bounds of the model.                                                    *)

MaxStrLen == 5
MaxLines == 7
MaxPages == 3

---------------------------------------------------------------------------
(* Optional values and small helpers.                                      *)

None == {}
Some(x) == {x}
IsNone(o) == o = {}
Get(o) == CHOOSE x \in o : TRUE

Range(s) == {s[k] : k \in 1..Len(s)}
MinOf(S) == CHOOSE x \in S : \A y \in S : x <= y
MaxOf(S) == CHOOSE x \in S : \A y \in S : y <= x

RECURSIVE sorted(_)
sorted(S) == IF S = {} THEN <<>> ELSE <<MinOf(S)>> \o sorted(S \ {MinOf(S)})

RECURSIVE Flatten(_)
Flatten(ss) == IF ss = <<>> THEN <<>> ELSE Head(ss) \o Flatten(Tail(ss))

---------------------------------------------------------------------------
(* Python's str methods, on sequences of characters.                       *)

Digit == {"0", "1", "2", "3", "4", "5", "6", "7", "8", "9"}
Whitespace == {" ", "\t", "\n"}

DigitVal(c) ==
    CASE c = "0" -> 0 [] c = "1" -> 1 [] c = "2" -> 2 [] c = "3" -> 3
      [] c = "4" -> 4 [] c = "5" -> 5 [] c = "6" -> 6 [] c = "7" -> 7
      [] c = "8" -> 8 [] c = "9" -> 9

DigitChar(d) ==
    CASE d = 0 -> "0" [] d = 1 -> "1" [] d = 2 -> "2" [] d = 3 -> "3"
      [] d = 4 -> "4" [] d = 5 -> "5" [] d = 6 -> "6" [] d = 7 -> "7"
      [] d = 8 -> "8" [] d = 9 -> "9"

\* str(n) for n >= 0: the decimal digits.
RECURSIVE str(_)
str(n) == IF n < 10 THEN <<DigitChar(n)>> ELSE str(n \div 10) \o <<DigitChar(n % 10)>>

\* The value of a non-empty string of decimal digits.
RECURSIVE DecVal(_)
DecVal(s) ==
    IF Len(s) <= 1 THEN DigitVal(s[1])
    ELSE 10 * DecVal(SubSeq(s, 1, Len(s) - 1)) + DigitVal(s[Len(s)])

\* s.split(sep) with a one-character separator: always at least one piece.
RECURSIVE split(_, _)
split(s, sep) ==
    IF sep \notin Range(s) THEN <<s>>
    ELSE LET k == MinOf({j \in 1..Len(s) : s[j] = sep})
         IN  <<SubSeq(s, 1, k - 1)>> \o split(SubSeq(s, k + 1, Len(s)), sep)

\* s.strip()
strip(s) ==
    LET keep == {k \in 1..Len(s) : s[k] \notin Whitespace}
    IN  IF keep = {} THEN <<>> ELSE SubSeq(s, MinOf(keep), MaxOf(keep))

\* s.split(): the maximal runs of non-whitespace characters.
RECURSIVE split_ws(_)
split_ws(s) ==
    LET t == strip(s)
    IN  IF t = <<>> THEN <<>>
        ELSE IF \A k \in 1..Len(t) : t[k] \notin Whitespace THEN <<t>>
        ELSE LET k == MinOf({j \in 1..Len(t) : t[j] \in Whitespace})
             IN  <<SubSeq(t, 1, k - 1)>> \o split_ws(SubSeq(t, k + 1, Len(t)))

\* sep.join(parts)
RECURSIVE join(_, _)
join(sep, parts) ==
    IF parts = <<>> THEN <<>>
    ELSE IF Len(parts) = 1 THEN parts[1]
    ELSE parts[1] \o sep \o join(sep, Tail(parts))

\* s.isdigit()
isdigit(s) == s # <<>> /\ \A k \in 1..Len(s) : s[k] \in Digit

\* pat in s
Contains(s, pat) ==
    \E k \in 0..(Len(s) - Len(pat)) : SubSeq(s, k + 1, k + Len(pat)) = pat

\* int(s): None stands for ValueError.  Surrounding whitespace and one sign
\* are accepted, as Python does.
int(s) ==
    LET t == strip(s)
        signed == t # <<>> /\ t[1] \in {"+", "-"}
        body == IF signed THEN Tail(t) ELSE t
    IN  IF ~isdigit(body) THEN None
        ELSE IF signed /\ t[1] = "-" THEN Some(0 - DecVal(body))
        ELSE Some(DecVal(body))

---------------------------------------------------------------------------
(* pdf_converter_lib.parse_page_ranges                                     *)

Returned(v) == [raised |-> FALSE, value |-> v]
ValueError == [raised |-> TRUE, value |-> {}]

\* A faulty variant: range(start, end) without the + 1.
parse_part_exclusive(part) ==
    IF "-" \in Range(part)
    THEN LET pieces == split(part, "-")
         IN  IF Len(pieces) # 2 THEN ValueError
             ELSE LET start == int(pieces[1])
                      end == int(pieces[2])
                  IN  IF IsNone(start) \/ IsNone(end) THEN ValueError
                      ELSE Returned(Get(start)..(Get(end) - 1))
    ELSE LET v == int(part)
         IN  IF IsNone(v) THEN ValueError ELSE Returned({Get(v)})

\* A faulty variant: a malformed token is skipped.
parse_part_lenient(part) ==
    IF "-" \in Range(part)
    THEN LET pieces == split(part, "-")
         IN  IF Len(pieces) # 2 THEN Returned({})
             ELSE LET start == int(pieces[1])
                      end == int(pieces[2])
                  IN  IF IsNone(start) \/ IsNone(end) THEN Returned({})
                      ELSE Returned(Get(start)..Get(end))
    ELSE LET v == int(part)
         IN  IF IsNone(v) THEN Returned({}) ELSE Returned({Get(v)})

\* The body of the loop, lines 29-34: the pages one stripped token adds, or
\* the ValueError of the tuple unpacking or of int().
parse_part(part) ==
    IF "-" \in Range(part)
    THEN LET pieces == split(part, "-")
         IN  IF Len(pieces) # 2 THEN ValueError
             ELSE LET start == int(pieces[1])
                      end == int(pieces[2])
                  IN  IF IsNone(start) \/ IsNone(end) THEN ValueError
                      ELSE Returned(Get(start)..Get(end))
    ELSE LET v == int(part)
         IN  IF IsNone(v) THEN ValueError ELSE Returned({Get(v)})

\* The loop of lines 27-36 from token k on, with the set collected so far.
RECURSIVE parse_parts(_, _, _)
parse_parts(parts, k, pages) ==
    IF k > Len(parts) THEN Returned(pages)
    ELSE LET r == parse_part(strip(parts[k]))
         IN  IF r.raised THEN ValueError
             ELSE parse_parts(parts, k + 1, pages \cup r.value)

parse_page_ranges(s) ==
    IF IsNone(s) \/ Get(s) = <<>> THEN Returned({})
    ELSE parse_parts(split(Get(s), ","), 1, {})

---------------------------------------------------------------------------
(* pdf_converter_lib.clean_text, is_likely_header, is_likely_footer        *)

LowerCase == <<"a", "b", "c", "d", "e", "f", "g", "h", "i", "j", "k", "l", "m",
               "n", "o", "p", "q", "r", "s", "t", "u", "v", "w", "x", "y", "z">>
UpperCase == <<"A", "B", "C", "D", "E", "F", "G", "H", "I", "J", "K", "L", "M",
               "N", "O", "P", "Q", "R", "S", "T", "U", "V", "W", "X", "Y", "Z">>

\* c.upper() for one character; the ligatures upper-case to two letters.
upper_char(c) ==
    IF \E k \in 1..26 : LowerCase[k] = c
    THEN <<UpperCase[CHOOSE k \in 1..26 : LowerCase[k] = c]>>
    ELSE CASE c = "U+FB01" -> <<"F", "I">>
           [] c = "U+FB02" -> <<"F", "L">>
           [] c = "U+FB00" -> <<"F", "F">>
           [] OTHER -> <<c>>

\* s.upper()
upper(s) == Flatten([k \in 1..Len(s) |-> upper_char(s[k])])

\* s.replace(ch, repl) for a one-character ch
replace(s, ch, repl) ==
    Flatten([k \in 1..Len(s) |-> IF s[k] = ch THEN repl ELSE <<s[k]>>])

\* A faulty variant: the ends are trimmed and the inner runs are kept.
clean_text_trimmed(text) ==
    IF text = <<>> THEN <<>>
    ELSE LET spaced == strip(text)
             fi == replace(spaced, "U+FB01", <<"f", "i">>)
             fl == replace(fi, "U+FB02", <<"f", "l">>)
         IN  replace(fl, "U+FB00", <<"f", "f">>)

clean_text(text) ==
    IF text = <<>> THEN <<>>
    ELSE LET spaced == join(<<" ">>, split_ws(text))
             fi == replace(spaced, "U+FB01", <<"f", "i">>)
             fl == replace(fi, "U+FB02", <<"f", "l">>)
         IN  replace(fl, "U+FB00", <<"f", "f">>)

header_indicators ==
    << <<"P", "H", "Y", "S", "I", "C", "A", "L", " ", "R", "E", "V", "I", "E", "W">>,
       <<"V", "O", "L", "U", "M", "E">>,
       <<"N", "U", "M", "B", "E", "R">> >>

is_likely_header(text) ==
    IF text = <<>> THEN FALSE
    ELSE \E k \in 1..Len(header_indicators) :
             Contains(upper(text), header_indicators[k])

footer_indicators ==
    << <<"T", "h", "e", " ", "A", "m", "e", "r", "i", "c", "a", "n", " ", "P", "h", "y", "s", "i", "c", "a", "l", " ", "S", "o", "c", "i", "e", "t", "y">>,
       <<"U+00A9">>,
       <<"C", "o", "p", "y", "r", "i", "g", "h", "t">> >>

\* A faulty variant: a text without digits to object counts as a number.
is_likely_footer_vacuous(text) ==
    IF text = <<>> THEN FALSE
    ELSE IF \A k \in 1..Len(strip(text)) : strip(text)[k] \in Digit THEN TRUE
    ELSE \E k \in 1..Len(footer_indicators) :
             Contains(text, footer_indicators[k])

is_likely_footer(text) ==
    IF text = <<>> THEN FALSE
    ELSE IF isdigit(strip(text)) THEN TRUE
    ELSE \E k \in 1..Len(footer_indicators) :
             Contains(text, footer_indicators[k])

---------------------------------------------------------------------------
(* A pdfplumber page.  lines is the text of the whole page, line by line;  *)
(* left and right are the lines of its two halves; error, when set, is the *)
(* exception that reading the page raises.                                 *)

NewPage ==
    [lines |-> <<>>, left |-> <<>>, right |-> <<>>, tables |-> <<>>,
     error |-> None, width |-> 612, height |-> 792]

\* page.extract_text()
extract_text(p) == join(<<"\n">>, p.lines)

\* page.extract_tables()
extract_tables(p) == p.tables

\* page.crop((x0, top, x1, bottom)): the part of the page inside the box.
crop(p, bbox) ==
    [p EXCEPT !.lines = IF 2 * bbox[3] <= p.width THEN p.left
                        ELSE IF 2 * bbox[1] >= p.width THEN p.right
                        ELSE p.lines,
              !.tables = <<>>]

Raised(e) == [raised |-> TRUE, value |-> e]

---------------------------------------------------------------------------
(* pdf_converter_lib.extract_column_text, extract_page_content             *)

HeaderWindow == 3
FooterWindow == 3

\* Lines 113-119: whether the loop skips line i (0-based) of a column.
column_skips(lines, i) ==
    \/ i < HeaderWindow /\ is_likely_header(lines[i + 1])
    \/ i >= Len(lines) - FooterWindow /\ is_likely_footer(lines[i + 1])

\* A faulty variant: the footer window one line too wide.
page_skips_wide(lines, i) ==
    \/ i < HeaderWindow /\ is_likely_header(lines[i + 1])
    \/ i >= Len(lines) - FooterWindow - 1 /\ is_likely_footer(lines[i + 1])

\* Lines 173-179: the same test in the single-column branch.
page_skips(lines, i) ==
    \/ i < HeaderWindow /\ is_likely_header(lines[i + 1])
    \/ i >= Len(lines) - FooterWindow /\ is_likely_footer(lines[i + 1])

\* Lines 110-123: cleaned_lines after the loop over a column's lines.
column_cleaned_lines(lines) ==
    Flatten([k \in 1..Len(lines) |->
        IF column_skips(lines, k - 1) THEN <<>>
        ELSE LET cleaned == clean_text(lines[k])
             IN  IF cleaned # <<>> THEN <<cleaned>> ELSE <<>>])

\* Lines 170-183: cleaned_lines after the loop of the single-column branch.
page_cleaned_lines(lines) ==
    Flatten([k \in 1..Len(lines) |->
        IF page_skips(lines, k - 1) THEN <<>>
        ELSE LET cleaned == clean_text(lines[k])
             IN  IF cleaned # <<>> THEN <<cleaned>> ELSE <<>>])

extract_column_text(page_or_crop, page_num, column_label) ==
    LET text == extract_text(page_or_crop)
    IN  IF text = <<>> THEN <<>>
        ELSE join(<<"\n", "\n">>, column_cleaned_lines(split(text, "\n")))

\* f"\n<!-- Page {page_num}: No text extracted -->\n"
no_text_extracted(page_num) ==
    <<"\n", "<!-- Page ">> \o str(page_num) \o <<": No text extracted -->", "\n">>

\* str(cell) if cell else ""
cell_str(cell) == IF IsNone(cell) THEN <<>> ELSE Get(cell)

\* "| " + " | ".join(...) + " |\n"
table_row(row) ==
    <<"|", " ">>
    \o join(<<" ", "|", " ">>, [k \in 1..Len(row) |-> cell_str(row[k])])
    \o <<" ", "|", "\n">>

\* A faulty variant: one separator cell too many.
table_separator_wide(header) ==
    <<"|">>
    \o join(<<"|">>, [k \in 1..(Len(header) + 1) |-> <<"-", "-", "-">>])
    \o <<"|", "\n">>

\* "|" + "|".join(["---"] * len(header)) + "|\n"
table_separator(header) ==
    <<"|">>
    \o join(<<"|">>, [k \in 1..Len(header) |-> <<"-", "-", "-">>])
    \o <<"|", "\n">>

\* Lines 193-206: what table j (0-based) adds to table_content.
table_markdown(j, table) ==
    <<"**Table ">> \o str(j + 1) \o <<":**", "\n", "\n">>
    \o (IF table # <<>>
        THEN table_row(table[1]) \o table_separator(table[1])
             \o Flatten([k \in 1..(Len(table) - 1) |-> table_row(table[k + 1])])
             \o <<"\n">>
        ELSE <<>>)

\* Lines 189-208: table_content, empty when the page has no table.
table_content(tables) ==
    IF tables = <<>> THEN <<>>
    ELSE <<"\n", "\n">>
         \o Flatten([j \in 1..Len(tables) |-> table_markdown(j - 1, tables[j])])

\* A faulty variant: the separator added unconditionally.
combine_columns_always(left_text, right_text) ==
    left_text \o <<"\n", "\n">> \o right_text

\* Lines 152-160: the two column texts put together.
combine_columns(left_text, right_text) ==
    LET content1 == IF left_text # <<>> THEN left_text ELSE <<>>
    IN  IF right_text # <<>>
        THEN (IF content1 # <<>> THEN content1 \o <<"\n", "\n">> ELSE content1)
             \o right_text
        ELSE content1

\* A faulty variant: the placeholder only for a page without raw text.
extract_double_column_raw(p, page_num) ==
    LET mid_x == p.width \div 2
        left_crop == crop(p, <<0, 0, mid_x, p.height>>)
        left_text == extract_column_text(left_crop, page_num, "Left")
        right_crop == crop(p, <<mid_x, 0, p.width, p.height>>)
        right_text == extract_column_text(right_crop, page_num, "Right")
    IN  IF extract_text(left_crop) = <<>> /\ extract_text(right_crop) = <<>>
        THEN no_text_extracted(page_num)
        ELSE combine_columns(left_text, right_text)

\* Lines 136-160: the double-column branch.
extract_double_column(p, page_num) ==
    LET mid_x == p.width \div 2
        left_crop == crop(p, <<0, 0, mid_x, p.height>>)
        left_text == extract_column_text(left_crop, page_num, "Left")
        right_crop == crop(p, <<mid_x, 0, p.width, p.height>>)
        right_text == extract_column_text(right_crop, page_num, "Right")
    IN  IF left_text = <<>> /\ right_text = <<>>
        THEN no_text_extracted(page_num)
        ELSE combine_columns(left_text, right_text)

\* A faulty variant: no early return for an empty page.
extract_single_column_unguarded(p, page_num) ==
    join(<<"\n", "\n">>, page_cleaned_lines(split(extract_text(p), "\n")))
    \o table_content(extract_tables(p))

\* Lines 163-210: the single-column branch.
extract_single_column(p, page_num) ==
    LET text == extract_text(p)
    IN  IF text = <<>> THEN no_text_extracted(page_num)
        ELSE join(<<"\n", "\n">>, page_cleaned_lines(split(text, "\n")))
             \o table_content(extract_tables(p))

\* The string returned, or the exception that reading the page raised.
extract_page_content(p, page_num, is_double_column) ==
    IF ~IsNone(p.error) THEN Raised(Get(p.error))
    ELSE IF is_double_column THEN Returned(extract_double_column(p, page_num))
    ELSE Returned(extract_single_column(p, page_num))

---------------------------------------------------------------------------
(* convert_pdf_simple.py: its own clean_text, is_likely_header,            *)
(* is_likely_footer and extract_page_content.                              *)

simple_clean_text(text) ==
    IF text = <<>> THEN <<>>
    ELSE LET spaced == join(<<" ">>, split_ws(text))
             fi == replace(spaced, "U+FB01", <<"f", "i">>)
             fl == replace(fi, "U+FB02", <<"f", "l">>)
         IN  replace(fl, "U+FB00", <<"f", "f">>)

simple_is_likely_header(text) ==
    IF text = <<>> THEN FALSE
    ELSE \E indicator \in {<<"P", "H", "Y", "S", "I", "C", "A", "L", " ", "R", "E", "V", "I", "E", "W">>,
                          <<"V", "O", "L", "U", "M", "E">>,
                          <<"N", "U", "M", "B", "E", "R">>} :
             Contains(upper(text), indicator)

simple_is_likely_footer(text) ==
    IF text = <<>> THEN FALSE
    ELSE IF isdigit(strip(text)) THEN TRUE
    ELSE \E indicator \in {<<"T", "h", "e", " ", "A", "m", "e", "r", "i", "c", "a", "n", " ", "P", "h", "y", "s", "i", "c", "a", "l", " ", "S", "o", "c", "i", "e", "t", "y">>,
                          <<"U+00A9">>,
                          <<"C", "o", "p", "y", "r", "i", "g", "h", "t">>} :
             Contains(text, indicator)

\* A faulty variant: the footer test and the tables are left out.
simple_extract_page_content_prose(p, page_num) ==
    IF ~IsNone(p.error) THEN Raised(Get(p.error))
    ELSE LET text == extract_text(p)
             lines == split(text, "\n")
         IN  IF text = <<>>
             THEN Returned(<<"\n", "<!-- Page ">> \o str(page_num)
                           \o <<": No text extracted -->", "\n">>)
             ELSE Returned(join(<<"\n", "\n">>,
                      Flatten([k \in 1..Len(lines) |->
                          IF simple_is_likely_header(lines[k]) /\ k - 1 < 3 THEN <<>>
                          ELSE IF simple_clean_text(lines[k]) # <<>>
                          THEN <<simple_clean_text(lines[k])>> ELSE <<>>])))

\* convert_pdf_simple.extract_page_content, lines 82-130: the string
\* returned, or the exception that reading the page raised.
simple_extract_page_content(p, page_num) ==
    IF ~IsNone(p.error) THEN Raised(Get(p.error))
    ELSE
    LET text == extract_text(p)
        lines == split(text, "\n")
        \* lines 92-103: what line i (0-based) adds to cleaned_lines
        kept(i) ==
            IF i < 3 /\ simple_is_likely_header(lines[i + 1]) THEN <<>>
            ELSE IF i >= Len(lines) - 3 /\ simple_is_likely_footer(lines[i + 1])
            THEN <<>>
            ELSE LET cleaned == simple_clean_text(lines[i + 1])
                 IN  IF cleaned # <<>> THEN <<cleaned>> ELSE <<>>
        cleaned_lines == Flatten([k \in 1..Len(lines) |-> kept(k - 1)])
        content == join(<<"\n", "\n">>, cleaned_lines)
        tables == extract_tables(p)
        \* lines 119 and 124: one row of a table
        row_md(row) ==
            <<"|", " ">>
            \o join(<<" ", "|", " ">>,
                    [k \in 1..Len(row) |->
                        IF ~IsNone(row[k]) /\ Get(row[k]) # <<>>
                        THEN Get(row[k]) ELSE <<>>])
            \o <<" ", "|", "\n">>
        \* lines 113-126: what table j (0-based) adds to table_content
        table_md(j) ==
            LET tbl == tables[j + 1]
            IN  <<"**Table ">> \o str(j + 1) \o <<":**", "\n", "\n">>
                \o (IF tbl # <<>> /\ Len(tbl) > 0
                    THEN row_md(tbl[1])
                         \o <<"|">>
                         \o join(<<"|">>, [k \in 1..Len(tbl[1]) |-> <<"-", "-", "-">>])
                         \o <<"|", "\n">>
                         \o Flatten([k \in 1..(Len(tbl) - 1) |-> row_md(tbl[k + 1])])
                         \o <<"\n">>
                    ELSE <<>>)
        table_part ==
            IF tables # <<>>
            THEN <<"\n", "\n">> \o Flatten([j \in 1..Len(tables) |-> table_md(j - 1)])
            ELSE <<>>
    IN  IF text = <<>>
        THEN Returned(<<"\n", "<!-- Page ">> \o str(page_num)
                      \o <<": No text extracted -->", "\n">>)
        ELSE Returned(content \o table_part)

---------------------------------------------------------------------------
(* convert_pdf_split_columns.split_image_columns (convert_pdf_with_vision  *)
(* defines the same function).  A PIL image is its size (width, height);   *)
(* a crop records the box it was cut with, an image that is not a crop has *)
(* none.                                                                   *)

\* Image.crop(box) with box = (left, upper, right, lower).
image_crop(img, box) ==
    [size |-> <<box[3] - box[1], box[4] - box[2]>>, box |-> Some(box)]

\* A faulty variant: the last column is as wide as the others.
split_image_columns_even(img, n) ==
    LET width == img.size[1]
        height == img.size[2]
        column_width == width \div n
    IN  [k \in 1..n |->
            image_crop(img, <<(k - 1) * column_width, 0, k * column_width, height>>)]

\* Lines 20-32.  width // num_columns is \div: both round towards minus
\* infinity.  Column k of the list is the iteration i = k - 1.
split_image_columns(img, n) ==
    LET width == img.size[1]
        height == img.size[2]
        column_width == width \div n
        column(i) ==
            LET left == i * column_width
                right == IF i < n - 1 THEN (i + 1) * column_width ELSE width
            IN  image_crop(img, <<left, 0, right, height>>)
    IN  [k \in 1..n |-> column(k - 1)]

---------------------------------------------------------------------------
(* pdf_converter_lib.extract_metadata and the pieces of                    *)
(* convert_pdf_to_markdown.                                                *)

\* pypdf's metadata, with the defaults of lines 61-62.
extract_metadata(file) ==
    [title |-> IF ~IsNone(file.title) THEN Get(file.title) ELSE file.stem,
     author |-> IF ~IsNone(file.author) THEN Get(file.author) ELSE <<"Unknown">>]

\* A faulty variant: only None is false.
Truthy_given(o) == ~IsNone(o)

\* Python's truth value of an Optional[Set[int]]: None and set() are false.
Truthy(o) == ~IsNone(o) /\ Get(o) # {}

\* str(sorted(S)) for a set of integers >= 0.
list_repr(S) ==
    LET l == sorted(S)
    IN  <<"[">> \o join(<<",", " ">>, [k \in 1..Len(l) |-> str(l[k])]) \o <<"]">>

\* A faulty variant: the header counts the pages of the subset that exist.
page_info_in_range(extract, total_pages) ==
    IF Truthy(extract)
    THEN str(Cardinality(Get(extract) \cap 1..total_pages)) \o <<" pages">>
    ELSE str(total_pages) \o <<" pages">>

\* A faulty variant: the header always counts the subset.
page_info_subset(extract, total_pages) ==
    (IF ~IsNone(extract) THEN str(Cardinality(Get(extract))) ELSE str(0))
    \o <<" pages">>

\* Line 255: page_info.
page_info(extract, total_pages) ==
    IF Truthy(extract) THEN str(Cardinality(Get(extract))) \o <<" pages">>
    ELSE str(total_pages) \o <<" pages">>

\* Lines 256-268: the header block.
header_block(metadata, name, info) ==
    <<"# ">> \o metadata.title
    \o <<"\n", "\n", "**Author:** ">> \o metadata.author
    \o <<"\n", "\n", "**Source:** ", "U+0060">> \o name
    \o <<"U+0060", "\n", "\n", "**Converted:** PDF to Markdown using pdfplumber",
         "\n", "\n", "**Pages:** ">> \o info
    \o <<"\n", "\n", "---", "\n", "\n">>

\* A faulty variant: no page is flagged.
column_info_never(is_double_column) == <<>>

\* Line 278: column_info.
column_info(is_double_column) ==
    IF is_double_column THEN <<" (double-column)">> ELSE <<>>

\* Line 285: f"\n\n<!-- Page {i}{column_info} -->\n\n"
page_marker(i, is_double_column) ==
    <<"\n", "\n", "<!-- Page ">> \o str(i) \o column_info(is_double_column)
    \o <<" -->", "\n", "\n">>

\* Line 292: f"\n\n<!-- Page {i}: Error - {e} -->\n\n"
error_placeholder(i, e) ==
    <<"\n", "\n", "<!-- Page ">> \o str(i) \o <<": Error - ">> \o e
    \o <<" -->", "\n", "\n">>

\* Lines 300-312: the notes section.
notes ==
    <<"\n", "\n", "---", "\n", "\n", "## Notes", "\n", "\n",
      "- This document was converted from PDF using pdfplumber", "\n",
      "- Mathematical formulas are preserved from the PDF text layer", "\n",
      "- Some formatting may require manual adjustment", "\n",
      "- Complex equations may need to be formatted as LaTeX", "\n",
      "- Please review and verify the content accuracy", "\n", "\n">>

\* Lines 231-249: what convert_pdf_to_markdown prints before the loop.
convert_banner(file, extract, double, metadata) ==
    << <<"Converting PDF: ">> \o file.name, <<"Output: ">> \o file.stem \o <<".md">> >>
    \o (IF Truthy(extract)
        THEN << <<"Extracting pages: ">> \o list_repr(Get(extract)) >> ELSE <<>>)
    \o (IF double # {}
        THEN << <<"Double-column pages: ">> \o list_repr(double) >> ELSE <<>>)
    \o << <<>>, <<"Title: ">> \o metadata.title,
          <<"Author: ">> \o metadata.author, <<>>,
          <<"Total pages in PDF: ">> \o str(Len(file.pages)), <<>> >>

---------------------------------------------------------------------------
(* The inputs the model is run on.                                         *)

\* The characters a range string is typed from.
RangeChars == {"0", "1", "2", ",", "-", " ", "x"}
RangeStrings == UNION {[1..n -> RangeChars] : n \in 0..MaxStrLen}

\* The lines a page is made of: a journal header, a bare page number and a
\* paragraph line with whitespace to clean; a column may also hold a blank
\* line.
HeaderLine == <<"V", "o", "l", "u", "m", "e", " ", "2">>
FooterLine == <<"7">>
TextLine == <<"a", " ", " ", "U+FB01">>
BlankLine == <<" ">>
LineSamples == {HeaderLine, FooterLine, TextLine}
ColumnLineSamples == LineSamples \cup {BlankLine}
MaxColumnLines == 2

\* The pages a PDF file is made of: a two-column page of text, a page
\* without text, and a page that pdfplumber fails to read.
TextPage ==
    [NewPage EXCEPT !.lines = << <<"a", " ", "b">> >>,
                    !.left = << <<"a">> >>, !.right = << <<"b">> >>]
BrokenPage == [NewPage EXCEPT !.error = Some(<<"boom">>)]
PageSamples == {TextPage, NewPage, BrokenPage}

NoFile ==
    [exists |-> FALSE, name |-> <<"paper.pdf">>, stem |-> <<"paper">>,
     title |-> None, author |-> None, pages |-> <<>>]
Files ==
    {NoFile} \cup
    {[NoFile EXCEPT !.exists = TRUE, !.title = m, !.author = m, !.pages = ps] :
        m \in {None, Some(<<"T">>)},
        ps \in UNION {[1..n -> PageSamples] : n \in 0..MaxPages}}

\* --pages: "1-3", "2", "2,4", "0-1", "" and the malformed "x".
PagesArgs ==
    {<<"1", "-", "3">>, <<"2">>, <<"2", ",", "4">>, <<"0", "-", "1">>, <<>>, <<"x">>}
\* --double-column-pages: absent, "2", "4", "1-2" and the malformed "2-".
DoubleArgs ==
    {None, Some(<<"2">>), Some(<<"4">>), Some(<<"1", "-", "2">>), Some(<<"2", "-">>)}

NoArgs == [pages |-> None, double_column_pages |-> None]

\* A command line: the script run and its flags (--pdf-only and
\* --source-only of fetch_paper.py, --skip-fetch of convert_paper.py).
NoCommand ==
    [script |-> "none", pdf_only |-> FALSE, source_only |-> FALSE,
     skip_fetch |-> FALSE]

\* The answers of the outside world: whether curl finds the source tarball
\* and the PDF on arXiv, whether tar unpacks the tarball, whether the unpacked
\* source holds a .tex file at top level and one that find_main_tex accepts,
\* whether pandoc is installed and converts the file, whether the arXiv API
\* answers the title query, and whether the PDF converter can read the PDF.
\* curl, tar and uv are installed.
NoWorld ==
    [source_on_arxiv |-> FALSE, tar_ok |-> FALSE, tex_in_tarball |-> FALSE,
     main_tex |-> FALSE, pdf_on_arxiv |-> FALSE, pandoc_installed |-> FALSE,
     pandoc_ok |-> FALSE, api_answers |-> FALSE, pdf_readable |-> FALSE]
Worlds ==
    [source_on_arxiv : BOOLEAN, tar_ok : BOOLEAN, tex_in_tarball : BOOLEAN,
     main_tex : BOOLEAN, pdf_on_arxiv : BOOLEAN, pandoc_installed : BOOLEAN,
     pandoc_ok : BOOLEAN, api_answers : BOOLEAN, pdf_readable : BOOLEAN]

\* The paper directory: the tarball, the source directory and whether it
\* holds a top-level .tex file, the PDF under pdf/ and the PDF beside it,
\* the figures directory, and the Markdown output (which converter wrote it
\* and under which title).
NoFiles ==
    [tarball |-> FALSE, source_dir |-> FALSE, tex |-> FALSE, pdf |-> FALSE,
     flat_pdf |-> FALSE, figures |-> FALSE, md |-> None]
\* What a paper directory left by an earlier run may hold.
OldFiles ==
    {f \in [tarball : {FALSE}, source_dir : BOOLEAN, tex : BOOLEAN,
            pdf : BOOLEAN, flat_pdf : BOOLEAN, figures : {FALSE}, md : {None}] :
        f.tex => f.source_dir}

\* The command lines: fetch_paper.py with its two flags, convert_paper.py
\* with and without --skip-fetch, convert_latex.py.
CommandLines ==
    {[NoCommand EXCEPT !.script = "fetch_paper.py", !.pdf_only = a,
                       !.source_only = b] : a \in BOOLEAN, b \in BOOLEAN}
    \cup {[NoCommand EXCEPT !.script = "convert_paper.py", !.skip_fetch = s] :
              s \in BOOLEAN}
    \cup {[NoCommand EXCEPT !.script = "convert_latex.py"]}

ArxivId == "2409.03108"

---------------------------------------------------------------------------
(* The idle values of the three groups of variables.                       *)

ParserIdle == range_str = None /\ parsed = None
PageIdle == page = NewPage /\ call = "none" /\ page_content = Returned(<<>>)
RunIdle ==
    /\ script = "none" /\ args = NoArgs /\ pdf = NoFile /\ pc = "idle"
    /\ pages_to_extract = None /\ double_column_pages = {} /\ next_page = 0
    /\ markdown_parts = <<>> /\ stdout = <<>> /\ stderr = <<>>
    /\ output_file = None /\ exit_code = None
TextIdle == text_arg = None /\ text_call = "none" /\ text_result = <<>>
ToolIdle ==
    /\ argv = NoCommand /\ world = NoWorld /\ files = NoFiles /\ procs = <<>>
    /\ returncode = None /\ commands = <<>> /\ terminal = <<>> /\ status = None
ImageIdle ==
    /\ image = [size |-> <<0, 0>>, box |-> None]
    /\ num_columns = 0 /\ columns = None

---------------------------------------------------------------------------
(* parse_page_ranges called once on a string, or on None.                  *)

CallParse ==
    /\ parsed = None
    /\ \E s \in {None} \cup {Some(t) : t \in RangeStrings} :
          /\ range_str' = s
          /\ parsed' = Some(parse_page_ranges(s))
    /\ UNCHANGED <<pageVars, runVars, textVars, toolVars, imageVars>>

ParseInit == ParserIdle /\ PageIdle /\ RunIdle /\ TextIdle /\ ToolIdle /\ ImageIdle
ParseNext == CallParse
SpecParse == ParseInit /\ [][ParseNext]_vars

---------------------------------------------------------------------------
(* extract_column_text and extract_page_content called on one page.  A     *)
(* page is laid out either in one column (lines) or in two (left, right,   *)
(* and lines the two in reading order).                                    *)

PageNum == 12

TwoColumnLayout(p) == p.lines = p.left \o p.right

AddLine ==
    /\ call = "none"
    /\ page.left = <<>> /\ page.right = <<>>
    /\ Len(page.lines) < MaxLines
    /\ \E l \in LineSamples : page' = [page EXCEPT !.lines = Append(@, l)]
    /\ UNCHANGED <<call, page_content, parserVars, runVars, textVars, toolVars, imageVars>>

AddColumnLine ==
    /\ call = "none"
    /\ TwoColumnLayout(page)
    /\ \E l \in ColumnLineSamples :
          \/ /\ Len(page.left) < MaxColumnLines
             /\ page' = [page EXCEPT !.left = Append(@, l),
                                     !.lines = Append(page.left, l) \o page.right]
          \/ /\ Len(page.right) < MaxColumnLines
             /\ page' = [page EXCEPT !.right = Append(@, l),
                                     !.lines = page.left \o Append(page.right, l)]
    /\ UNCHANGED <<call, page_content, parserVars, runVars, textVars, toolVars, imageVars>>

CallExtractColumnText ==
    /\ call = "none"
    /\ call' = "extract_column_text"
    /\ page_content' = Returned(extract_column_text(page, PageNum, <<>>))
    /\ UNCHANGED <<page, parserVars, runVars, textVars, toolVars, imageVars>>

CallExtractSingle ==
    /\ call = "none"
    /\ call' = "single"
    /\ page_content' = extract_page_content(page, PageNum, FALSE)
    /\ UNCHANGED <<page, parserVars, runVars, textVars, toolVars, imageVars>>

CallExtractDouble ==
    /\ call = "none"
    /\ TwoColumnLayout(page)
    /\ call' = "double"
    /\ page_content' = extract_page_content(page, PageNum, TRUE)
    /\ UNCHANGED <<page, parserVars, runVars, textVars, toolVars, imageVars>>

PageInit == ParserIdle /\ PageIdle /\ RunIdle /\ TextIdle /\ ToolIdle /\ ImageIdle
PageNext ==
    \/ AddLine
    \/ AddColumnLine
    \/ CallExtractColumnText
    \/ CallExtractSingle
    \/ CallExtractDouble
SpecPage == PageInit /\ [][PageNext]_vars

---------------------------------------------------------------------------
(* extract_page_content called in single-column mode on a page with        *)
(* tables.  A table is what pdfplumber's extract_tables returns: a list of *)
(* rows of equal length whose cells are strings or None.                   *)

MaxRows == 2
MaxCols == 2
Cells == {None, Some(<<"x">>)}
Grids == UNION {[1..r -> [1..c -> Cells]] : r \in 0..MaxRows, c \in 1..MaxCols}
\* A one-row table with a two-character cell and an empty string.
WordTable == << <<Some(<<"a", "b">>), Some(<<>>)>> >>
TableLists ==
    {<<>>} \cup {<<g>> : g \in Grids \cup {WordTable}}
    \cup {<<g, WordTable>> : g \in Grids}
\* The text around the tables: none, one line, a header above two lines, a
\* page number alone.
ProseSamples ==
    {<<>>, <<TextLine>>, <<HeaderLine, TextLine, TextLine>>, <<FooterLine>>}
TablePages ==
    {[NewPage EXCEPT !.lines = ls, !.tables = ts] :
        ls \in ProseSamples, ts \in TableLists}

TableInit ==
    /\ ParserIdle /\ RunIdle /\ TextIdle /\ ToolIdle /\ ImageIdle
    /\ page \in TablePages /\ call = "none" /\ page_content = Returned(<<>>)
TableNext == CallExtractSingle
SpecTable == TableInit /\ [][TableNext]_vars

---------------------------------------------------------------------------
(* clean_text, is_likely_header and is_likely_footer called on a text: any *)
(* string of blanks, line breaks, tabs, a letter and the three ligatures,  *)
(* one of the sample lines, or None.  `not text` holds for None as for "". *)

MaxTextLen == 4
TextChars == {" ", "\n", "\t", "a", "U+FB01", "U+FB02", "U+FB00"}
TextStrings == UNION {[1..n -> TextChars] : n \in 0..MaxTextLen}
TextInputs == {None} \cup {Some(s) : s \in TextStrings \cup LineSamples}

CallCleanText ==
    /\ text_call = "none"
    /\ text_call' = "clean_text"
    /\ text_result' = IF IsNone(text_arg) THEN <<>> ELSE clean_text(Get(text_arg))
    /\ UNCHANGED <<text_arg, parserVars, pageVars, runVars, toolVars, imageVars>>

\* clean_text called on what clean_text returned.
CallCleanTextAgain ==
    /\ text_call = "clean_text"
    /\ text_call' = "clean_text(clean_text)"
    /\ text_result' = clean_text(text_result)
    /\ UNCHANGED <<text_arg, parserVars, pageVars, runVars, toolVars, imageVars>>

CallIsLikelyHeader ==
    /\ text_call = "none"
    /\ text_call' = "is_likely_header"
    /\ text_result' = IF IsNone(text_arg) THEN FALSE ELSE is_likely_header(Get(text_arg))
    /\ UNCHANGED <<text_arg, parserVars, pageVars, runVars, toolVars, imageVars>>

CallIsLikelyFooter ==
    /\ text_call = "none"
    /\ text_call' = "is_likely_footer"
    /\ text_result' = IF IsNone(text_arg) THEN FALSE ELSE is_likely_footer(Get(text_arg))
    /\ UNCHANGED <<text_arg, parserVars, pageVars, runVars, toolVars, imageVars>>

TextInit ==
    /\ ParserIdle /\ PageIdle /\ RunIdle /\ ToolIdle /\ ImageIdle
    /\ text_arg \in TextInputs /\ text_call = "none" /\ text_result = <<>>
TextNext ==
    \/ CallCleanText
    \/ CallCleanTextAgain
    \/ CallIsLikelyHeader
    \/ CallIsLikelyFooter
SpecText == TextInit /\ [][TextNext]_vars

---------------------------------------------------------------------------
(* A run of convert_pdf_extract.py or of convert_pdf_double_column.py on a *)
(* PDF file: main, then convert_pdf_to_markdown page by page.              *)

\* The traceback of an uncaught ValueError, as the interpreter prints it.
Traceback == << <<"Traceback (most recent call last):">>, <<"ValueError">> >>

\* A faulty variant: the validation never finds a page.
invalid_pages_unchecked(double, extract) == {}

\* convert_pdf_extract.py line 61.
invalid_pages(double, extract) == double \ extract

\* convert_pdf_extract.py lines 63-66: the lines of the validation error.
validation_error(double, extract, invalid) ==
    << <<"Error: --double-column-pages contains pages not in --pages: ">>
           \o list_repr(invalid),
       <<"  Pages to extract: ">> \o list_repr(extract),
       <<"  Double-column pages: ">> \o list_repr(double),
       <<"  Invalid pages: ">> \o list_repr(invalid) >>

\* A faulty variant: a subset is applied only when given,
\* and nothing is extracted without one.
skips_page_without_subset(extract, i) ==
    IsNone(extract) \/ i \notin Get(extract)

\* Line 274: whether the loop skips page i.
skips_page(extract, i) == Truthy(extract) /\ i \notin Get(extract)

\* A faulty variant: the error text is dropped and the
\* page number is that of the previous page.
page_parts_anonymous(i, is_double_column, r) ==
    IF r.raised THEN << error_placeholder(i - 1, <<>>) >>
    ELSE << page_marker(i, is_double_column), r.value >>

\* Lines 281-292: what one page appends to markdown_parts.
page_parts(i, is_double_column, r) ==
    IF r.raised THEN << error_placeholder(i, r.value) >>
    ELSE << page_marker(i, is_double_column), r.value >>

\* Lines 279-291: what one page prints.  The character count of line 288 is
\* left out.
page_prints(i, total_pages, is_double_column, r) ==
    << <<"Processing page ">> \o str(i) \o <<"/">> \o str(total_pages)
           \o column_info(is_double_column) \o <<"...">>,
       IF r.raised
       THEN <<"U+2717 Error processing page ">> \o str(i) \o <<": ">> \o r.value
       ELSE <<"U+2713 Page ">> \o str(i) \o <<" processed">> >>

\* Lines 228-269 of convert_pdf_to_markdown: the banner and the header.
StartConvert(extract, double) ==
    LET metadata == extract_metadata(pdf)
        total_pages == Len(pdf.pages)
    IN  /\ pages_to_extract' = extract
        /\ double_column_pages' = double
        /\ stdout' = stdout \o convert_banner(pdf, extract, double, metadata)
        /\ markdown_parts' =
               << header_block(metadata, pdf.name, page_info(extract, total_pages)) >>
        /\ next_page' = 1
        /\ pc' = "pages"
        /\ UNCHANGED <<stderr, output_file, exit_code>>

\* sys.exit(1) after printing the lines out.
Exit1(out) ==
    /\ stdout' = stdout \o out
    /\ pc' = "exit"
    /\ exit_code' = Some(1)
    /\ UNCHANGED <<double_column_pages, next_page, markdown_parts, stderr,
                   output_file>>

\* An uncaught ValueError ends the interpreter with status 1.
Crash ==
    /\ stderr' = stderr \o Traceback
    /\ pc' = "exit"
    /\ exit_code' = Some(1)
    /\ UNCHANGED <<double_column_pages, next_page, markdown_parts, stdout,
                   output_file>>

\* convert_pdf_extract.main, lines 47-75, up to the loop over the pages.
MainExtract ==
    /\ pc = "start"
    /\ script = "convert_pdf_extract"
    /\ IF ~pdf.exists
       THEN /\ Exit1(<< <<"Error: PDF file not found: ">> \o pdf.name >>)
            /\ UNCHANGED pages_to_extract
       ELSE LET p == parse_page_ranges(args.pages)
                given == ~IsNone(args.double_column_pages)
                           /\ Get(args.double_column_pages) # <<>>
                d == IF given THEN parse_page_ranges(args.double_column_pages)
                     ELSE Returned({})
                invalid == invalid_pages(d.value, p.value)
            IN  IF p.raised THEN Crash /\ UNCHANGED pages_to_extract
                ELSE IF d.raised
                THEN Crash /\ pages_to_extract' = Some(p.value)
                ELSE IF d.value # {} /\ invalid # {}
                THEN /\ Exit1(validation_error(d.value, p.value, invalid))
                     /\ pages_to_extract' = Some(p.value)
                ELSE StartConvert(Some(p.value), d.value)
    /\ UNCHANGED <<script, args, pdf, parserVars, pageVars,
                   textVars, toolVars, imageVars>>

\* convert_pdf_double_column.main, lines 37-56, up to the loop over the pages.
MainDoubleColumn ==
    /\ pc = "start"
    /\ script = "convert_pdf_double_column"
    /\ IF ~pdf.exists
       THEN /\ Exit1(<< <<"Error: PDF file not found: ">> \o pdf.name >>)
            /\ UNCHANGED pages_to_extract
       ELSE StartConvert(None, 1..Len(pdf.pages))
    /\ UNCHANGED <<script, args, pdf, parserVars, pageVars,
                   textVars, toolVars, imageVars>>

\* Lines 272-292: one iteration of the loop over enumerate(pdf.pages, 1).
ProcessPage ==
    /\ pc = "pages"
    /\ next_page <= Len(pdf.pages)
    /\ LET i == next_page
           is_double_column == i \in double_column_pages
           r == extract_page_content(pdf.pages[i], i, is_double_column)
       IN  IF skips_page(pages_to_extract, i)
           THEN UNCHANGED <<markdown_parts, stdout>>
           ELSE /\ markdown_parts' =
                       markdown_parts \o page_parts(i, is_double_column, r)
                /\ stdout' = stdout \o page_prints(i, Len(pdf.pages),
                                                   is_double_column, r)
    /\ next_page' = next_page + 1
    /\ UNCHANGED <<script, args, pdf, pc, pages_to_extract, double_column_pages,
                   stderr, output_file, exit_code, parserVars, pageVars,
                   textVars, toolVars, imageVars>>

\* Lines 294-323: the notes, the file, the closing lines.  The size printed
\* by line 322 is left out.
FinishConvert ==
    /\ pc = "pages"
    /\ next_page > Len(pdf.pages)
    /\ LET full_markdown == Flatten(markdown_parts) \o notes
       IN  output_file' = Some(full_markdown)
    /\ stdout' = stdout \o << <<>>, <<"====">>, <<"U+2713 Conversion complete!">>,
                              <<"Output saved to: ">> \o pdf.stem \o <<".md">>,
                              <<"====">> >>
    /\ pc' = "done"
    /\ exit_code' = Some(0)
    /\ UNCHANGED <<script, args, pdf, pages_to_extract, double_column_pages,
                   next_page, markdown_parts, stderr, parserVars, pageVars,
                   textVars, toolVars, imageVars>>

Init ==
    /\ ParserIdle /\ PageIdle /\ TextIdle /\ ToolIdle /\ ImageIdle
    /\ pdf \in Files
    /\ \/ /\ script = "convert_pdf_extract"
          /\ args \in [pages : {Some(a) : a \in PagesArgs},
                       double_column_pages : DoubleArgs]
       \/ /\ script = "convert_pdf_double_column"
          /\ args = NoArgs
    /\ pc = "start"
    /\ pages_to_extract = None /\ double_column_pages = {} /\ next_page = 0
    /\ markdown_parts = <<>> /\ stdout = <<>> /\ stderr = <<>>
    /\ output_file = None /\ exit_code = None

Next ==
    \/ MainExtract
    \/ MainDoubleColumn
    \/ ProcessPage
    \/ FinishConvert

Spec == Init /\ [][Next]_vars

---------------------------------------------------------------------------
(* A run of convert_pdf_simple.py on a PDF file, in the variables of the   *)
(* library's run.  The files are those of the library's run and the        *)
(* one-page files of pages with prose and tables.                          *)

\* The pages with tables, and those of a longer prose: a page number above a
\* paragraph, two journal headers of which the second lies behind the header
\* window, and a page number at the foot.
SimplePages ==
    TablePages \cup
    {[NewPage EXCEPT !.lines = <<FooterLine, TextLine, HeaderLine, HeaderLine,
                                 FooterLine>>,
                     !.tables = ts] : ts \in TableLists}
SimpleFiles ==
    Files \cup
    {[NoFile EXCEPT !.exists = TRUE, !.title = m, !.author = m, !.pages = <<p>>] :
        m \in {None, Some(<<"T">>)}, p \in SimplePages}

\* convert_pdf_simple.main, lines 220-244, and convert_pdf_to_markdown,
\* lines 133-168, up to the loop over the pages.
MainSimple ==
    /\ pc = "start"
    /\ script = "convert_pdf_simple"
    /\ IF ~pdf.exists
       THEN Exit1(<< <<"Error: PDF file not found: ">> \o pdf.name >>)
       ELSE LET title == IF ~IsNone(pdf.title) THEN Get(pdf.title) ELSE pdf.stem
                author == IF ~IsNone(pdf.author) THEN Get(pdf.author)
                          ELSE <<"Unknown">>
                total_pages == Len(pdf.pages)
                header ==
                    <<"# ">> \o title
                    \o <<"\n", "\n", "**Author:** ">> \o author
                    \o <<"\n", "\n", "**Source:** ", "U+0060">> \o pdf.name
                    \o <<"U+0060", "\n", "\n",
                         "**Converted:** PDF to Markdown using pdfplumber",
                         "\n", "\n", "**Total Pages:** ">> \o str(total_pages)
                    \o <<"\n", "\n", "---", "\n", "\n">>
            IN  /\ stdout' = stdout \o
                       << <<"Converting PDF: ">> \o pdf.name,
                          <<"Output: ">> \o pdf.stem \o <<".md">>, <<>>,
                          <<"Title: ">> \o title, <<"Author: ">> \o author, <<>>,
                          <<"Total pages: ">> \o str(total_pages), <<>> >>
                /\ markdown_parts' = <<header>>
                /\ next_page' = 1
                /\ pc' = "pages"
                /\ UNCHANGED <<double_column_pages, stderr, output_file, exit_code>>
    /\ UNCHANGED <<script, args, pdf, pages_to_extract, parserVars, pageVars,
                   textVars, toolVars, imageVars>>

\* Lines 171-186: one iteration of the loop over enumerate(pdf.pages, 1).
\* The character count of line 182 is left out.
ProcessPageSimple ==
    /\ pc = "pages"
    /\ script = "convert_pdf_simple"
    /\ next_page <= Len(pdf.pages)
    /\ LET i == next_page
           r == simple_extract_page_content(pdf.pages[i], i)
           processing == <<"Processing page ">> \o str(i) \o <<"/">>
                         \o str(Len(pdf.pages)) \o <<"...">>
       IN  IF r.raised
           THEN /\ stdout' = stdout \o
                       << processing,
                          <<"U+2717 Error processing page ">> \o str(i)
                              \o <<": ">> \o r.value >>
                /\ markdown_parts' = Append(markdown_parts,
                       <<"\n", "\n", "<!-- Page ">> \o str(i) \o <<": Error - ">>
                       \o r.value \o <<" -->", "\n", "\n">>)
           ELSE /\ markdown_parts' = markdown_parts \o
                       << <<"\n", "\n", "<!-- Page ">> \o str(i)
                              \o <<" -->", "\n", "\n">>,
                          r.value >>
                /\ stdout' = stdout \o
                       << processing,
                          <<"U+2713 Page ">> \o str(i) \o <<" processed">> >>
    /\ next_page' = next_page + 1
    /\ UNCHANGED <<script, args, pdf, pc, pages_to_extract, double_column_pages,
                   stderr, output_file, exit_code, parserVars, pageVars,
                   textVars, toolVars, imageVars>>

\* Lines 188-217: the notes, the file, the closing lines.  The size printed
\* by line 216 is left out.
FinishSimple ==
    /\ pc = "pages"
    /\ script = "convert_pdf_simple"
    /\ next_page > Len(pdf.pages)
    /\ LET full_markdown ==
               Flatten(markdown_parts)
               \o <<"\n", "\n", "---", "\n", "\n", "## Notes", "\n", "\n",
                    "- This document was converted from PDF using pdfplumber", "\n",
                    "- Mathematical formulas are preserved from the PDF text layer", "\n",
                    "- Some formatting may require manual adjustment", "\n",
                    "- Complex equations may need to be formatted as LaTeX", "\n",
                    "- Please review and verify the content accuracy", "\n", "\n">>
       IN  output_file' = Some(full_markdown)
    /\ stdout' = stdout \o << <<>>, <<"====">>, <<"U+2713 Conversion complete!">>,
                              <<"Output saved to: ">> \o pdf.stem \o <<".md">>,
                              <<"====">> >>
    /\ pc' = "done"
    /\ exit_code' = Some(0)
    /\ UNCHANGED <<script, args, pdf, pages_to_extract, double_column_pages,
                   next_page, markdown_parts, stderr, parserVars, pageVars,
                   textVars, toolVars, imageVars>>

SimpleInit ==
    /\ ParserIdle /\ PageIdle /\ TextIdle /\ ToolIdle /\ ImageIdle
    /\ pdf \in SimpleFiles
    /\ script = "convert_pdf_simple"
    /\ args = NoArgs
    /\ pc = "start"
    /\ pages_to_extract = None /\ double_column_pages = {} /\ next_page = 0
    /\ markdown_parts = <<>> /\ stdout = <<>> /\ stderr = <<>>
    /\ output_file = None /\ exit_code = None

SimpleNext ==
    \/ MainSimple
    \/ ProcessPageSimple
    \/ FinishSimple

SpecSimple == SimpleInit /\ [][SimpleNext]_vars

---------------------------------------------------------------------------
(* split_image_columns called once on an image.                            *)

MaxWidth == 12
MaxHeight == 2
MaxColumns == 5
CallSplitImageColumns ==
    /\ IsNone(columns)
    /\ columns' = Some(split_image_columns(image, num_columns))
    /\ UNCHANGED <<image, num_columns, parserVars, pageVars, runVars, textVars,
                   toolVars>>

ImageInit ==
    /\ ParserIdle /\ PageIdle /\ RunIdle /\ TextIdle /\ ToolIdle
    /\ image \in {[size |-> <<w, h>>, box |-> None] :
                      w \in 0..MaxWidth, h \in 0..MaxHeight}
    /\ num_columns \in 1..MaxColumns
    /\ columns = None

ImageNext == CallSplitImageColumns

SpecImage == ImageInit /\ [][ImageNext]_vars

---------------------------------------------------------------------------
(* A run of fetch_paper.py, convert_latex.py or convert_paper.py.  A       *)
(* script that convert_paper.py starts with subprocess.run is a frame on   *)
(* top of its own in procs; parent and child write to the same terminal.   *)
(* commands records every external command (curl, tar, which, pandoc, the  *)
(* query of the arXiv API, a child script): its name, whether it succeeded *)
(* and how many lines the terminal held when it returned.                  *)

Frame(name, pdf_only, source_only, k) ==
    [script |-> name, pc |-> "main", pdf_only |-> pdf_only,
     source_only |-> source_only, has_source |-> FALSE, has_pdf |-> FALSE,
     call |-> k]

\* The innermost running script.
Top == procs[Len(procs)]
At(name, p) == procs # <<>> /\ Top.script = name /\ Top.pc = p
Goto(p) == [procs EXCEPT ![Len(procs)].pc = p]

\* A command that returned after n lines; ok is returncode == 0 (for the API
\* query: no exception).
Ran(cmd, ok, n) ==
    [cmd |-> cmd, result |-> IF ok THEN "ok" ELSE "failed", at |-> n]

\* The script goes on at p, having run cmds and printed out.
Continue(fs, cmds, out) ==
    /\ files' = fs
    /\ commands' = commands \o cmds
    /\ terminal' = terminal \o out
    /\ UNCHANGED <<argv, world, returncode, status>>

\* sys.exit(code), or the end of main with code 0: the command line ends, or
\* the parent's subprocess.run returns.
Exit(code, fs, cmds, out) ==
    /\ files' = fs
    /\ terminal' = terminal \o out
    /\ IF Len(procs) = 1
       THEN /\ procs' = <<>>
            /\ status' = Some(code)
            /\ commands' = commands \o cmds
            /\ UNCHANGED returncode
       ELSE /\ procs' = SubSeq(procs, 1, Len(procs) - 1)
            /\ returncode' = Some(code)
            /\ commands' =
                   [commands \o cmds EXCEPT
                       ![Top.call] = Ran(@.cmd, code = 0, Len(terminal) + Len(out))]
            /\ UNCHANGED status
    /\ UNCHANGED <<argv, world>>

\* run_script up to subprocess.run: the parent waits at p.
Start(name, p, out) ==
    /\ terminal' = terminal \o out
    /\ procs' = Append(Goto(p), Frame(name, FALSE, FALSE, Len(commands) + 1))
    /\ commands' = Append(commands, [cmd |-> name, result |-> "running",
                                     at |-> Len(terminal) + Len(out)])
    /\ returncode' = None
    /\ UNCHANGED <<argv, world, files, status>>

\* fetch_paper.fetch_source, called when the terminal holds n lines: the
\* value returned, the lines printed, the commands run and the files left.
fetch_source(fs, n) ==
    LET hello == << <<"Fetching source from ", "https://arxiv.org/src/", ArxivId, "...">> >>
        curl == Ran("curl source", world.source_on_arxiv, n + 1)
        tar == Ran("tar", world.tar_ok, n + 1)
    IN  IF ~world.source_on_arxiv
        THEN [value |-> FALSE, ran |-> <<curl>>, files |-> fs,
              out |-> hello \o << <<"Source not available (paper may be PDF-only)">> >>]
        ELSE IF ~world.tar_ok
        THEN [value |-> FALSE, ran |-> <<curl, tar>>,
              files |-> [fs EXCEPT !.tarball = TRUE, !.source_dir = TRUE],
              out |-> hello \o << <<"Failed to extract source: ", "tar: Error">> >>]
        ELSE [value |-> TRUE, ran |-> <<curl, tar>>,
              files |-> [fs EXCEPT !.tarball = FALSE, !.source_dir = TRUE,
                                   !.tex = @ \/ world.tex_in_tarball],
              out |-> hello \o << <<"U+2713 Source extracted to ", "source">> >>]

\* fetch_paper.fetch_pdf
fetch_pdf(fs, n) ==
    LET hello == << <<"Fetching PDF from ", "https://arxiv.org/pdf/", ArxivId, ".pdf", "...">> >>
        curl == Ran("curl pdf", world.pdf_on_arxiv, n + 1)
    IN  IF ~world.pdf_on_arxiv
        THEN [value |-> FALSE, ran |-> <<curl>>, files |-> fs,
              out |-> hello \o << <<"Failed to fetch PDF: ", "curl: (22)">> >>]
        ELSE [value |-> TRUE, ran |-> <<curl>>, files |-> [fs EXCEPT !.pdf = TRUE],
              out |-> hello \o << <<"U+2713 PDF saved to ", "pdf/", ArxivId, ".pdf">> >>]

\* A faulty variant: both materials are required.
fetch_status_both(has_source, has_pdf) ==
    IF ~has_source \/ ~has_pdf THEN 1 ELSE 0

\* fetch_paper.main, lines 135-139: the exit status.
fetch_status(has_source, has_pdf) ==
    IF ~has_source /\ ~has_pdf THEN 1 ELSE 0

\* fetch_paper.main, lines 104-121: the greeting and the source step.
FetchSource ==
    /\ At("fetch_paper.py", "main")
    /\ LET hello == << <<"Fetching materials for arXiv:", ArxivId>>,
                       <<"Output directory: ", ArxivId>>, <<>> >>
           r == fetch_source(files, Len(terminal) + Len(hello))
       IN  IF ~Top.pdf_only
           THEN /\ Continue(r.files, r.ran, hello \o r.out)
                /\ procs' = [Goto("pdf") EXCEPT ![Len(procs)].has_source = r.value]
           ELSE /\ Continue(files, <<>>, hello)
                /\ procs' = Goto("pdf")
    /\ UNCHANGED <<parserVars, pageVars, runVars, textVars, imageVars>>

\* fetch_paper.main, lines 123-125: the PDF step.
FetchPdf ==
    /\ At("fetch_paper.py", "pdf")
    /\ LET r == fetch_pdf(files, Len(terminal))
       IN  IF ~Top.source_only
           THEN /\ Continue(r.files, r.ran, r.out)
                /\ procs' = [Goto("summary") EXCEPT ![Len(procs)].has_pdf = r.value]
           ELSE /\ Continue(files, <<>>, <<>>)
                /\ procs' = Goto("summary")
    /\ UNCHANGED <<parserVars, pageVars, runVars, textVars, imageVars>>

\* fetch_paper.main, lines 127-139: the summary and the exit status.
FetchSummary ==
    /\ At("fetch_paper.py", "summary")
    /\ LET out == << <<>>, <<"====">> >>
                  \o (IF Top.has_source
                      THEN << <<"U+2713 LaTeX source available">> >> ELSE <<>>)
                  \o (IF Top.has_pdf THEN << <<"U+2713 PDF available">> >> ELSE <<>>)
           code == fetch_status(Top.has_source, Top.has_pdf)
       IN  IF code = 1
           THEN Exit(1, files, <<>>,
                     out \o << <<"U+2717 Failed to fetch any materials">> >>)
           ELSE Exit(0, files, <<>>,
                     out \o << <<>>, <<"Materials saved to: ", ArxivId>> >>)
    /\ UNCHANGED <<parserVars, pageVars, runVars, textVars, imageVars>>

\* convert_latex.find_main_tex: whether a main file is found.
find_main_tex(fs) == fs.tex /\ world.main_tex

\* convert_latex.fetch_title_from_arxiv: the title, or None when the query
\* raised.
fetch_title_from_arxiv == IF world.api_answers THEN Some(<<"Title">>) ELSE None

\* convert_latex.extract_title_from_latex, on sources without a \title.
extract_title_from_latex == <<"Unknown Title">>

\* convert_latex.main, lines 169-197: the checks before the conversion.
LatexMain ==
    /\ At("convert_latex.py", "main")
    /\ LET found == << <<"Found main file: ", "main.tex">> >>
           which == Ran("which pandoc", world.pandoc_installed,
                        Len(terminal) + Len(found))
       IN  IF ~files.source_dir
           THEN Exit(1, files, <<>>,
                     << <<"Error: Source directory not found: ", "source">> >>)
           ELSE IF ~find_main_tex(files)
           THEN Exit(1, files, <<>>,
                     << <<"Error: No main .tex file found in ", "source">> >>)
           ELSE IF ~world.pandoc_installed
           THEN Exit(1, files, <<which>>, found \o
                     << <<"Error: pandoc not found. Install with: brew install pandoc">> >>)
           ELSE Continue(files, <<which>>, found) /\ procs' = Goto("convert")
    /\ UNCHANGED <<parserVars, pageVars, runVars, textVars, imageVars>>

\* convert_latex.main, lines 199-202, with convert_with_pandoc.
LatexConvert ==
    /\ At("convert_latex.py", "convert")
    /\ LET hello == << <<"Converting ", "main.tex", " to Markdown with pandoc...">> >>
           pandoc == Ran("pandoc", world.pandoc_ok, Len(terminal) + Len(hello))
       IN  IF ~world.pandoc_ok
           THEN Exit(1, files, <<pandoc>>,
                     hello \o << <<"Pandoc conversion failed: ", "pandoc: Error">> >>)
           ELSE /\ Continue([files EXCEPT !.md = Some([by |-> "pandoc", title |-> None])],
                            <<pandoc>>,
                            hello \o << <<"U+2713 Converted to ", ArxivId, ".md">> >>)
                /\ procs' = Goto("post")
    /\ UNCHANGED <<parserVars, pageVars, runVars, textVars, imageVars>>

\* convert_latex.main, lines 204-212: post_process_markdown, copy_figures and
\* the closing lines.  The count line of copy_figures is left out.
LatexPostProcess ==
    /\ At("convert_latex.py", "post")
    /\ LET query == Ran("arxiv api", world.api_answers, Len(terminal))
           title == IF ~IsNone(fetch_title_from_arxiv)
                    THEN Get(fetch_title_from_arxiv)
                    ELSE extract_title_from_latex
       IN  Exit(0, [files EXCEPT !.md = Some([by |-> "latex", title |-> Some(title)]),
                                 !.figures = TRUE],
                <<query>>,
                << <<"U+2713 Post-processed Markdown">>, <<>>, <<"====">>,
                   <<"U+2713 Conversion complete: ", ArxivId, ".md">> >>)
    /\ UNCHANGED <<parserVars, pageVars, runVars, textVars, imageVars>>

\* The traceback of the exception that an unreadable PDF raises.
PdfTraceback == << <<"Traceback (most recent call last):">>, <<"PdfReadError">> >>

\* convert_pdf_simple.main as convert_paper.py runs it: the file check, then
\* convert_pdf_to_markdown, which writes the Markdown file unless the PDF
\* cannot be opened.  Its loop catches the errors of single pages, so they
\* do not change the exit status; the lines it prints per page are left out.
SimpleMain ==
    /\ At("convert_pdf_simple.py", "main")
    /\ LET hello == << <<"Converting PDF: ", ArxivId, ".pdf">>,
                       <<"Output: ", ArxivId, ".md">>, <<>> >>
       IN  IF ~files.pdf /\ ~files.flat_pdf
           THEN Exit(1, files, <<>>,
                     << <<"Error: PDF file not found: ", ArxivId, ".pdf">> >>)
           ELSE IF ~world.pdf_readable
           THEN Exit(1, files, <<>>, hello \o PdfTraceback)
           ELSE Exit(0, [files EXCEPT !.md = Some([by |-> "pdfplumber", title |-> None])],
                     <<>>,
                     hello \o << <<"====">>, <<"U+2713 Conversion complete!">>,
                                 <<"Output saved to: ", ArxivId, ".md">>, <<"====">> >>)
    /\ UNCHANGED <<parserVars, pageVars, runVars, textVars, imageVars>>

\* convert_paper.main, line 77: whether the LaTeX converter is chosen.
latex_source_detected(fs) == fs.source_dir /\ fs.tex

\* convert_paper.main, lines 94-97: whether a PDF is found.
pdf_file_exists(fs) == fs.pdf \/ fs.flat_pdf

\* convert_paper.main, lines 48-70: the banner and the start of step 1.
PaperMain ==
    /\ At("convert_paper.py", "main")
    /\ LET banner == << <<"====">>, <<"arXiv Paper to Markdown Converter">>,
                        <<"Paper ID: ", ArxivId>>, <<"====">>, <<>> >>
       IN  IF ~argv.skip_fetch
           THEN Start("fetch_paper.py", "fetched", banner \o
                      << <<"Step 1: Fetching paper materials...">>, <<"----">> >>)
           ELSE Continue(files, <<>>, banner) /\ procs' = Goto("convert")
    /\ UNCHANGED <<parserVars, pageVars, runVars, textVars, imageVars>>

\* convert_paper.main, lines 64-70: after fetch_paper.py returned.
PaperFetched ==
    /\ At("convert_paper.py", "fetched")
    /\ IF returncode # Some(0)
       THEN Exit(1, files, <<>>, << <<>>, <<"U+2717 Fetching failed">> >>)
       ELSE Continue(files, <<>>, << <<>> >>) /\ procs' = Goto("convert")
    /\ UNCHANGED <<parserVars, pageVars, runVars, textVars, imageVars>>

\* convert_paper.main, lines 72-105: the choice of the converter.
PaperConvert ==
    /\ At("convert_paper.py", "convert")
    /\ LET step == << <<"Step 2: Converting to Markdown...">>, <<"----">> >>
       IN  IF latex_source_detected(files)
           THEN Start("convert_latex.py", "converted latex", step \o
                      << <<"LaTeX source detected, using LaTeX conversion...">> >>)
           ELSE IF ~pdf_file_exists(files)
           THEN Exit(1, files, <<>>, step \o
                     << <<"No LaTeX source, using PDF conversion...">>,
                        <<"U+2717 PDF file not found in ", ArxivId>> >>)
           ELSE Start("convert_pdf_simple.py", "converted pdf", step \o
                      << <<"No LaTeX source, using PDF conversion...">> >>)
    /\ UNCHANGED <<parserVars, pageVars, runVars, textVars, imageVars>>

\* A faulty variant: a failed LaTeX conversion is followed by the PDF
\* conversion.
PaperConverted_retry ==
    /\ procs # <<>> /\ Top.script = "convert_paper.py"
    /\ Top.pc \in {"converted latex", "converted pdf"}
    /\ IF returncode # Some(0) /\ Top.pc = "converted latex"
       THEN Start("convert_pdf_simple.py", "converted pdf", <<>>)
       ELSE IF returncode # Some(0)
       THEN Exit(1, files, <<>>, << <<>>, <<"U+2717 PDF conversion failed">> >>)
       ELSE Exit(0, files, <<>>,
                 << <<>>, <<"====">>, <<"U+2713 Conversion complete!">>,
                    <<"Output: ", ArxivId, ".md">>, <<"====">> >>)
    /\ UNCHANGED <<parserVars, pageVars, runVars, textVars, imageVars>>

\* convert_paper.main, lines 88-113: after the converter returned.
PaperConverted ==
    /\ procs # <<>> /\ Top.script = "convert_paper.py"
    /\ Top.pc \in {"converted latex", "converted pdf"}
    /\ IF returncode # Some(0)
       THEN Exit(1, files, <<>>,
                 << <<>>, IF Top.pc = "converted latex"
                          THEN <<"U+2717 LaTeX conversion failed">>
                          ELSE <<"U+2717 PDF conversion failed">> >>)
       ELSE Exit(0, files, <<>>,
                 << <<>>, <<"====">>, <<"U+2713 Conversion complete!">>,
                    <<"Output: ", ArxivId, ".md">>, <<"====">> >>)
    /\ UNCHANGED <<parserVars, pageVars, runVars, textVars, imageVars>>

ToolInit ==
    /\ ParserIdle /\ PageIdle /\ RunIdle /\ TextIdle /\ ImageIdle
    /\ argv \in CommandLines
    /\ world \in Worlds
    /\ files \in IF argv.script = "convert_latex.py" \/ argv.skip_fetch
                 THEN OldFiles ELSE {NoFiles}
    /\ procs = << Frame(argv.script, argv.pdf_only, argv.source_only, 0) >>
    /\ returncode = None /\ commands = <<>> /\ terminal = <<>> /\ status = None

ToolNext ==
    \/ FetchSource
    \/ FetchPdf
    \/ FetchSummary
    \/ LatexMain
    \/ LatexConvert
    \/ LatexPostProcess
    \/ SimpleMain
    \/ PaperMain
    \/ PaperFetched
    \/ PaperConvert
    \/ PaperConverted

SpecTool == ToolInit /\ [][ToolNext]_vars

---------------------------------------------------------------------------
(* Claims about parse_page_ranges, checked under SpecParse.                *)

\* The tokens of a range string as the claims read it: the pieces between
\* the commas.
Tokens(s) == split(s, ",")
Dashes(t) == {k \in 1..Len(t) : t[k] = "-"}
BeforeDash(t) == SubSeq(t, 1, MinOf(Dashes(t)) - 1)
AfterDash(t) == SubSeq(t, MinOf(Dashes(t)) + 1, Len(t))

\* A single integer, or two integers joined by a dash.
ValidToken(t) ==
    \/ isdigit(t)
    \/ Cardinality(Dashes(t)) = 1 /\ isdigit(BeforeDash(t)) /\ isdigit(AfterDash(t))

\* The integers a valid token covers, both ends included.
Covered(t) ==
    IF isdigit(t) THEN {DecVal(t)}
    ELSE {n \in 0..DecVal(AfterDash(t)) : DecVal(BeforeDash(t)) <= n}

ValidRange(s) == s # <<>> /\ \A k \in 1..Len(Tokens(s)) : ValidToken(Tokens(s)[k])

Orderings(n) == {f \in [1..n -> 1..n] : \A a, b \in 1..n : f[a] = f[b] => a = b}

\* C1: for a range string of valid tokens parse_page_ranges returns exactly
\* the set of integers the tokens cover, and the same set for every
\* permutation of the tokens; an empty or absent string gives the empty set.
C1_ExactCoverAnyOrder ==
    \A r \in parsed :
        /\ (IsNone(range_str) \/ Get(range_str) = <<>>) => r = Returned({})
        /\ (~IsNone(range_str) /\ ValidRange(Get(range_str))) =>
              LET toks == Tokens(Get(range_str))
                  n == Len(toks)
              IN  /\ r = Returned(UNION {Covered(toks[k]) : k \in 1..n})
                  /\ \A f \in Orderings(n) :
                        parse_page_ranges(
                            Some(join(<<",">>, [k \in 1..n |-> toks[f[k]]]))) = r

\* C1 witness: "2,0-1" was parsed to {0, 1, 2}.
C1_Witness ==
    /\ range_str = Some(<<"2", ",", "0", "-", "1">>)
    /\ parsed = Some(Returned({0, 1, 2}))

\* C2: every value of a returned set is a positive integer.  The statement
\* of the claim; "0" and "0-2" refute it.
C2_AllPositive ==
    \A r \in parsed : ~r.raised => \A n \in r.value : n >= 1

\* A token the claim calls malformed: empty, not a number, a dash with a
\* missing or non-numeric bound, or more than one dash.
Malformed(t) ==
    LET u == strip(t)
    IN  \/ u = <<>>
        \/ Cardinality(Dashes(u)) >= 2
        \/ Cardinality(Dashes(u)) = 0 /\ ~isdigit(u)
        \/ /\ Cardinality(Dashes(u)) = 1
           /\ ~isdigit(strip(BeforeDash(u))) \/ ~isdigit(strip(AfterDash(u)))

\* C3: a range string with a malformed token anywhere among its tokens makes
\* parse_page_ranges raise; no set, partial or not, is returned.
C3_MalformedTokenRaises ==
    \A r \in parsed :
        (/\ ~IsNone(range_str)
         /\ Get(range_str) # <<>>
         /\ \E k \in 1..Len(Tokens(Get(range_str))) :
                Malformed(Tokens(Get(range_str))[k]))
        => r = ValueError

\* C3 witness: "1,,2", with an empty token between two valid ones, raised.
C3_Witness ==
    /\ range_str = Some(<<"1", ",", ",", "2">>)
    /\ parsed = Some(ValueError)

---------------------------------------------------------------------------
(* Reading the output back: the page comments of a Markdown document and   *)
(* the progress lines of standard output.                                  *)

\* The position after the digits that start at position k + 1 of o.
NumberEnd(o, k) == MinOf({j \in (k + 1)..(Len(o) + 1) : j > Len(o) \/ o[j] \notin Digit})
NumberAt(o, k) == DecVal(SubSeq(o, k + 1, NumberEnd(o, k) - 1))

\* The positions of the comments "<!-- Page N ..." of o followed by one of
\* the atoms in tails, in the order of the document.
CommentsAt(o, tails) ==
    sorted({k \in 1..Len(o) :
               /\ o[k] = "<!-- Page "
               /\ NumberEnd(o, k) <= Len(o)
               /\ o[NumberEnd(o, k)] \in tails})

MarkerTails == {" -->", " (double-column)"}
ErrorTails == {": Error - "}
NoTextTails == {": No text extracted -->"}

\* The page numbers of those comments, in the order of the document.
CommentPages(o, tails) ==
    [j \in 1..Len(CommentsAt(o, tails)) |-> NumberAt(o, CommentsAt(o, tails)[j])]

\* The page numbers of the "Processing page i/N" lines, in printing order.
ProcessedPages ==
    LET at == sorted({k \in 1..Len(stdout) :
                         stdout[k] # <<>> /\ stdout[k][1] = "Processing page "})
    IN  [j \in 1..Len(at) |-> NumberAt(stdout[at[j]], 1)]

Ascending(n) == [k \in 1..n |-> k]
Requested(i) == IsNone(pages_to_extract) \/ Get(pages_to_extract) = {}
                   \/ i \in Get(pages_to_extract)
Converting == pc \in {"pages", "done"}

---------------------------------------------------------------------------
(* Claims about a run, checked under Spec.                                 *)

\* The sets the two options of convert_pdf_extract.py denote, when both parse.
ArgPages == parse_page_ranges(args.pages)
ArgDouble == parse_page_ranges(args.double_column_pages)
OffendingPages == ArgDouble.value \ ArgPages.value

\* C4: when the double-column subset holds a page that is not in the
\* extraction subset, the run ends with status 1 and an error line listing the
\* offending pages, before any page is processed or any output is written.
C4_ValidationRejects ==
    (/\ script = "convert_pdf_extract" /\ pc # "start" /\ pdf.exists
     /\ ~ArgPages.raised /\ ~ArgDouble.raised
     /\ OffendingPages # {})
    => /\ pc = "exit" /\ exit_code = Some(1)
       /\ stdout # <<>>
       /\ stdout[1] = <<"Error: --double-column-pages contains pages not in --pages: ">>
                         \o list_repr(OffendingPages)
       /\ ProcessedPages = <<>>
       /\ markdown_parts = <<>>
       /\ output_file = None

\* C4 witness: --pages 1-3 --double-column-pages 4 on a three-page file was
\* rejected with "[4]".
C4_Witness ==
    /\ args.pages = Some(<<"1", "-", "3">>)
    /\ args.double_column_pages = Some(<<"4">>)
    /\ Len(pdf.pages) = 3
    /\ pc = "exit"
    /\ stdout[1] = <<"Error: --double-column-pages contains pages not in --pages: ",
                     "[", "4", "]">>

\* C5 as stated: without a subset the document holds as many page markers as
\* the file has pages, whatever its pages are.  A page whose extraction raises
\* gets an error placeholder and no marker.
C5_MarkerCountIsPageCount ==
    (pc = "done" /\ IsNone(pages_to_extract)) =>
        Len(CommentPages(Get(output_file), MarkerTails)) = Len(pdf.pages)

\* C5 amended: without a subset every page 1..N is processed in ascending
\* order and leaves exactly one comment, a page marker or, when its extraction
\* raised, an error placeholder; the markers number N less the failed pages.
C5_EveryPageOnceInOrder ==
    (pc = "done" /\ IsNone(pages_to_extract)) =>
        LET N == Len(pdf.pages)
            o == Get(output_file)
            failed == {i \in 1..N : ~IsNone(pdf.pages[i].error)}
        IN  /\ ProcessedPages = Ascending(N)
            /\ CommentPages(o, MarkerTails \cup ErrorTails) = Ascending(N)
            /\ Range(CommentPages(o, ErrorTails)) = failed
            /\ Len(CommentPages(o, MarkerTails)) = N - Cardinality(failed)

\* C5 witness: a three-page file with a failing second page was converted
\* without a subset.
C5_Witness ==
    /\ pc = "done" /\ IsNone(pages_to_extract)
    /\ Len(pdf.pages) = 3
    /\ pdf.pages[2] = BrokenPage /\ pdf.pages[3] = TextPage

\* C6: a page whose extraction raises leaves a placeholder with its number and
\* the error text, and the run goes on: it never exits from inside the loop,
\* every requested page is processed, the notes end the document and the file
\* is written.
C6_ErrorPageIsRecordedAndSkipped ==
    /\ pc = "exit" => next_page = 0 /\ IsNone(output_file)
    /\ Converting =>
          \A i \in 1..(next_page - 1) :
              (Requested(i) /\ ~IsNone(pdf.pages[i].error)) =>
                  /\ \E k \in 1..Len(markdown_parts) :
                        markdown_parts[k] =
                            <<"\n", "\n", "<!-- Page ">> \o str(i) \o <<": Error - ">>
                            \o Get(pdf.pages[i].error) \o <<" -->", "\n", "\n">>
                  /\ IsNone(exit_code) \/ exit_code = Some(0)
    /\ pc = "done" =>
          /\ ProcessedPages = sorted({i \in 1..Len(pdf.pages) : Requested(i)})
          /\ ~IsNone(output_file)
          /\ LET o == Get(output_file)
             IN  /\ Len(o) >= Len(notes)
                 /\ SubSeq(o, Len(o) - Len(notes) + 1, Len(o)) = notes
                 /\ o = Flatten(markdown_parts) \o notes

\* C6 witness: the first page failed, the second was processed after it,
\* and the file was written.
C6_Witness ==
    /\ pc = "done" /\ ~IsNone(output_file)
    /\ Len(pdf.pages) >= 2
    /\ pdf.pages[1] = BrokenPage /\ pdf.pages[2] = TextPage
    /\ ProcessedPages = Ascending(Len(pdf.pages))

\* C7: a page without text leaves, after its marker, exactly one placeholder
\* "Page N: No text extracted" and nothing else, in single-column and in
\* double-column mode, and the pages after it are still processed.
C7_EmptyPagePlaceholder ==
    /\ Converting =>
          \A i \in 1..(next_page - 1) :
              (/\ Requested(i) /\ IsNone(pdf.pages[i].error)
               /\ pdf.pages[i].lines = <<>>
               /\ pdf.pages[i].left = <<>> /\ pdf.pages[i].right = <<>>)
              => \E k \in 1..(Len(markdown_parts) - 1) :
                    /\ markdown_parts[k] = page_marker(i, i \in double_column_pages)
                    /\ markdown_parts[k + 1] =
                          <<"\n", "<!-- Page ">> \o str(i)
                          \o <<": No text extracted -->", "\n">>
    /\ pc = "done" =>
          LET o == Get(output_file)
              empty == {i \in 1..Len(pdf.pages) :
                           /\ Requested(i) /\ IsNone(pdf.pages[i].error)
                           /\ pdf.pages[i].lines = <<>>
                           /\ pdf.pages[i].left = <<>> /\ pdf.pages[i].right = <<>>}
          IN  /\ CommentPages(o, NoTextTails) = sorted(empty)
              /\ ProcessedPages = sorted({i \in 1..Len(pdf.pages) : Requested(i)})

\* C7 witness: an empty first page in single-column mode and an empty second
\* page in double-column mode, followed by a page of text.
C7_Witness ==
    /\ pc = "done"
    /\ Len(pdf.pages) = 3
    /\ pdf.pages[1] = NewPage /\ pdf.pages[2] = NewPage /\ pdf.pages[3] = TextPage
    /\ double_column_pages = {2}
    /\ ProcessedPages = <<1, 2, 3>>

\* The number the header block gives after "**Pages:** ".
HeaderPageCount ==
    LET h == markdown_parts[1]
    IN  NumberAt(h, CHOOSE k \in 1..Len(h) : h[k] = "**Pages:** ")

\* C10 as stated: the header counts the subset whenever one was given.  An
\* empty subset is given by --pages "" and the header then counts the file.
C10_HeaderCountsSubset ==
    Converting =>
        HeaderPageCount = IF ~IsNone(pages_to_extract)
                          THEN Cardinality(Get(pages_to_extract))
                          ELSE Len(pdf.pages)

\* C10 amended: the header counts the requested subset when a non-empty
\* subset was given, and the pages of the file when no subset or an empty
\* one was given.
C10_HeaderCount ==
    Converting =>
        HeaderPageCount = IF ~IsNone(pages_to_extract) /\ Get(pages_to_extract) # {}
                          THEN Cardinality(Get(pages_to_extract))
                          ELSE Len(pdf.pages)

\* C10 witness: --pages 2,4 on a three-page file, whose header says 2 pages.
C10_Witness ==
    /\ pc = "done"
    /\ pages_to_extract = Some({2, 4})
    /\ Len(pdf.pages) = 3
    /\ HeaderPageCount = 2

\* The pages of the file that the loop does not skip, in ascending order.
EmittedPages == sorted({i \in 1..Len(pdf.pages) : Requested(i)})

\* The header block of a document over the whole file.
FullHeader ==
    <<"# ">> \o extract_metadata(pdf).title
    \o <<"\n", "\n", "**Author:** ">> \o extract_metadata(pdf).author
    \o <<"\n", "\n", "**Source:** ", "U+0060">> \o pdf.name
    \o <<"U+0060", "\n", "\n", "**Converted:** PDF to Markdown using pdfplumber",
         "\n", "\n", "**Pages:** ">> \o str(Len(pdf.pages)) \o <<" pages">>
    \o <<"\n", "\n", "---", "\n", "\n">>

\* What page i leaves in a document: its marker, flagged when the page is in
\* the double-column subset, and its content; or, when reading it raised, the
\* error placeholder.
PageBlock(i) ==
    LET flagged == i \in double_column_pages
        r == extract_page_content(pdf.pages[i], i, flagged)
    IN  IF r.raised
        THEN <<"\n", "\n", "<!-- Page ">> \o str(i) \o <<": Error - ">> \o r.value
             \o <<" -->", "\n", "\n">>
        ELSE <<"\n", "\n", "<!-- Page ">> \o str(i)
             \o (IF flagged THEN <<" (double-column)">> ELSE <<>>)
             \o <<" -->", "\n", "\n">> \o r.value

PageBlocks(ps) == Flatten([j \in 1..Len(ps) |-> PageBlock(ps[j])])

\* C14 as stated: every block of the document is a content block preceded by
\* its own page marker, so the markers are those of the emitted pages.  A page
\* whose extraction raises leaves an error placeholder and no marker.
C14_EveryBlockHasMarker ==
    pc = "done" =>
        CommentPages(Get(output_file), MarkerTails) = EmittedPages

\* C14 amended: the document is the header block, then for each emitted page
\* in ascending order its marker (flagged double-column exactly for the pages
\* of the double-column subset) immediately followed by its content, or its
\* error placeholder alone when its extraction raised, then the notes; the
\* file is written once, by the step that follows the last page, and never
\* changes afterwards.
C14_OrderedDocument ==
    /\ [](/\ ~IsNone(output_file) <=> pc = "done"
          /\ pc = "done" =>
                /\ next_page = Len(pdf.pages) + 1
                /\ ProcessedPages = EmittedPages
                /\ Get(output_file)
                       = markdown_parts[1] \o PageBlocks(EmittedPages) \o notes
                /\ SubSeq(markdown_parts[1], 1, 1) = <<"# ">>)
    /\ [][output_file' # output_file =>
             /\ IsNone(output_file)
             /\ pc = "pages" /\ next_page > Len(pdf.pages)
             /\ ProcessedPages = EmittedPages
             /\ pc' = "done"]_vars

\* C14 witness: a document of three pages, the second read in two columns
\* and the third failing.
C14_Witness ==
    /\ pc = "done"
    /\ Len(pdf.pages) = 3
    /\ pdf.pages[1] = TextPage /\ pdf.pages[2] = TextPage
    /\ pdf.pages[3] = BrokenPage
    /\ double_column_pages = {2}
    /\ ProcessedPages = <<1, 2, 3>>
    /\ CommentPages(Get(output_file), {" (double-column)"}) = <<2>>

\* C18: with the empty set as extraction subset the run is that of an absent
\* subset: every page of the file is processed in order, the header reports
\* the page count of the file, and the document is the one over all pages.
C18_EmptySetIsAllPages ==
    pages_to_extract = Some({}) =>
        /\ Converting =>
              /\ markdown_parts[1] = FullHeader
              /\ HeaderPageCount = Len(pdf.pages)
              /\ ProcessedPages = Ascending(next_page - 1)
        /\ pc = "done" =>
              /\ ProcessedPages = Ascending(Len(pdf.pages))
              /\ CommentPages(Get(output_file), MarkerTails \cup ErrorTails)
                     = Ascending(Len(pdf.pages))
              /\ Get(output_file)
                     = FullHeader \o PageBlocks(Ascending(Len(pdf.pages))) \o notes

\* C18 witness: --pages "" on a three-page file, all three pages processed.
C18_Witness ==
    /\ pc = "done"
    /\ args.pages = Some(<<>>)
    /\ pages_to_extract = Some({})
    /\ Len(pdf.pages) = 3
    /\ ProcessedPages = <<1, 2, 3>>
    /\ HeaderPageCount = 3

\* The lines of standard output that report a problem.
Diagnostics ==
    {k \in 1..Len(stdout) :
        /\ stdout[k] # <<>>
        /\ stdout[k][1] \notin
               {"Converting PDF: ", "Output: ", "Extracting pages: ",
                "Double-column pages: ", "Title: ", "Author: ",
                "Total pages in PDF: ", "Processing page ", "U+2713 Page ",
                "====", "U+2713 Conversion complete!", "Output saved to: "}}

\* C19: with a non-empty extraction subset S on a file of N pages the
\* document holds a marker or an error placeholder exactly for the pages of S
\* within 1..N, in ascending order; the pages of S outside 1..N change
\* nothing: no line is printed about them, nothing goes to standard error,
\* the run ends with status 0, and the header still counts all of S.
C19_OutOfRangeIgnored ==
    (pc = "done" /\ Truthy(pages_to_extract)) =>
        LET S == Get(pages_to_extract)
            N == Len(pdf.pages)
            o == Get(output_file)
        IN  /\ CommentPages(o, MarkerTails \cup ErrorTails) = sorted(S \cap 1..N)
            /\ ProcessedPages = sorted(S \cap 1..N)
            /\ HeaderPageCount = Cardinality(S)
            /\ HeaderPageCount >= Len(CommentPages(o, MarkerTails \cup ErrorTails))
            /\ stderr = <<>>
            /\ exit_code = Some(0)
            /\ \A k \in Diagnostics :
                  /\ stdout[k][1] = "U+2717 Error processing page "
                  /\ NumberAt(stdout[k], 1) \in S \cap 1..N
                  /\ ~IsNone(pdf.pages[NumberAt(stdout[k], 1)].error)

\* C19 witness: --pages 2,4 on a three-page file: the header says 2 pages and
\* the document holds page 2 alone.
C19_Witness ==
    /\ pc = "done"
    /\ pages_to_extract = Some({2, 4})
    /\ Len(pdf.pages) = 3
    /\ HeaderPageCount = 2
    /\ CommentPages(Get(output_file), MarkerTails \cup ErrorTails) = <<2>>
    /\ stderr = <<>>

---------------------------------------------------------------------------
(* Claims about the extraction of one page, checked under SpecPage.        *)

\* The paragraphs of a fragment: its non-empty lines.
Paragraphs(content) ==
    SelectSeq(split(content, "\n"), LAMBDA l : l # <<>>)

\* The 1-based positions of the lines that must survive: those that are not
\* empty after cleaning, are no header among the first three lines and no
\* footer among the last three.
Surviving(lines) ==
    {k \in 1..Len(lines) :
        /\ clean_text(lines[k]) # <<>>
        /\ ~(k <= 3 /\ is_likely_header(lines[k]))
        /\ ~(k > Len(lines) - 3 /\ is_likely_footer(lines[k]))}

\* Their cleaned text, in the order of the page.
SurvivingText(lines) ==
    LET at == sorted(Surviving(lines))
    IN  [j \in 1..Len(at) |-> clean_text(lines[at[j]])]

\* The positions outside both windows.
Inner(lines) == {k \in 1..Len(lines) : k > 3 /\ k <= Len(lines) - 3}

\* C8: the paragraphs of the text that extract_column_text and the
\* single-column extract_page_content return are the cleaned surviving lines
\* in their order: every line outside the first three and the last three that
\* is not empty after cleaning is among them, header or footer or not.
C8_OnlyEdgeLinesSuppressed ==
    (call \in {"single", "extract_column_text"} /\ page.lines # <<>>) =>
        /\ ~page_content.raised
        /\ Paragraphs(page_content.value) = SurvivingText(page.lines)
        /\ page_content.value = join(<<"\n", "\n">>, SurvivingText(page.lines))
        /\ \A k \in Inner(page.lines) :
              clean_text(page.lines[k]) # <<>> =>
                  \E j \in 1..Len(Paragraphs(page_content.value)) :
                      Paragraphs(page_content.value)[j] = clean_text(page.lines[k])

\* C8 witness: a page of seven lines whose fourth line is a footer and whose
\* first and last lines are suppressed; the fourth is in the result.
C8_Witness ==
    /\ call = "single"
    /\ page.lines = <<HeaderLine, TextLine, TextLine, FooterLine,
                      HeaderLine, TextLine, FooterLine>>
    /\ Paragraphs(page_content.value)
           = << <<"a", " ", "f", "i">>, <<"a", " ", "f", "i">>, <<"7">>,
                <<"V", "o", "l", "u", "m", "e", " ", "2">>, <<"a", " ", "f", "i">> >>

\* C9: in double-column mode the result is the content of the left half, then
\* the content of the right half, with one blank line between them when both
\* have content and no separator when only one has.
C9_LeftThenRight ==
    call = "double" =>
        LET L == SurvivingText(page.left)
            R == SurvivingText(page.right)
            left_content == join(<<"\n", "\n">>, L)
            right_content == join(<<"\n", "\n">>, R)
        IN  /\ ~page_content.raised
            /\ (L # <<>> /\ R # <<>>) =>
                  /\ page_content.value = left_content \o <<"\n", "\n">> \o right_content
                  /\ Paragraphs(page_content.value) = L \o R
            /\ (L # <<>> /\ R = <<>>) => page_content.value = left_content
            /\ (L = <<>> /\ R # <<>>) => page_content.value = right_content

\* C9 witness: a left column of two lines and a right column of one.
C9_Witness ==
    /\ call = "double"
    /\ page.left = <<TextLine, HeaderLine>>
    /\ page.right = <<TextLine>>
    /\ page_content.value =
           <<"a", " ", "f", "i", "\n", "\n", "a", " ", "f", "i">>

\* The placeholder of a page without text, with the number the page was
\* extracted under.
Placeholder == <<"\n", "<!-- Page ">> \o str(PageNum) \o <<": No text extracted -->", "\n">>

\* C20: in double-column mode the result is the placeholder exactly when no
\* line of either column survives the header/footer filter and the cleaning;
\* in single-column mode the result is the placeholder exactly when the page
\* has no raw text, and a page whose lines are all suppressed gives the empty
\* string.
C20_PlaceholderByMode ==
    /\ call = "double" =>
          (page_content.value = Placeholder
               <=> SurvivingText(page.left) = <<>> /\ SurvivingText(page.right) = <<>>)
    /\ call = "single" =>
          /\ page_content.value = Placeholder <=> extract_text(page) = <<>>
          /\ (page.lines # <<>> /\ SurvivingText(page.lines) = <<>>)
                 => page_content.value = <<>>

\* C20 witness: a page with a journal header as its left column and a page
\* number as its right column, extracted in double-column mode: placeholder.
C20_Witness ==
    /\ call = "double"
    /\ page.left = <<HeaderLine>> /\ page.right = <<FooterLine>>
    /\ page_content.value = Placeholder

---------------------------------------------------------------------------
(* Claims about tables, checked under SpecTable.                           *)

\* A cell as the table shows it: a missing cell is empty.
CellText(cell) == IF cell = {} THEN <<>> ELSE CHOOSE s \in cell : TRUE

\* The line "| c1 | c2 |" of a row and the line "|---|---|" under the header.
RowLine(row) ==
    <<"|">> \o Flatten([k \in 1..Len(row) |-> <<" ">> \o CellText(row[k]) \o <<" ", "|">>])
SeparatorLine(n) == <<"|">> \o Flatten([k \in 1..n |-> <<"-", "-", "-", "|">>])

\* The lines of the block of table j: its title, a blank line and, unless
\* the table has no row, the header row, the separator, the other rows and a
\* blank line.
TableBlockLines(j, tbl) ==
    << <<"**Table ">> \o str(j) \o <<":**">>, <<>> >>
    \o (IF tbl = <<>> THEN <<>>
        ELSE <<RowLine(tbl[1]), SeparatorLine(Len(tbl[1]))>>
             \o [k \in 1..(Len(tbl) - 1) |-> RowLine(tbl[k + 1])]
             \o << <<>> >>)

\* C15: in single-column mode the result for a page with text is the prose,
\* the paragraphs of its surviving lines, followed by the tables and nothing
\* else: after a blank line, for each table in the order of detection its
\* title and a pipe table whose first row is the header, whose second line
\* holds one "---" per header cell, and whose missing cells are empty.
\* Without tables the result is the prose alone.
C15_TablesAfterProse ==
    (call = "single" /\ extract_text(page) # <<>>) =>
        LET prose == join(<<"\n", "\n">>, SurvivingText(page.lines))
            n == Len(page.tables)
            c == page_content.value
            rest == SubSeq(c, Len(prose) + 1, Len(c))
        IN  /\ Len(c) >= Len(prose)
            /\ SubSeq(c, 1, Len(prose)) = prose
            /\ n = 0 => rest = <<>>
            /\ n > 0 =>
                  split(rest, "\n") =
                      << <<>>, <<>> >>
                      \o Flatten([j \in 1..n |-> TableBlockLines(j, page.tables[j])])
                      \o << <<>> >>

\* C15 witness: a line of text and a 2-by-2 table whose last cell is missing.
C15_Witness ==
    /\ call = "single"
    /\ page.lines = <<TextLine>>
    /\ page.tables = << << <<Some(<<"x">>), Some(<<"x">>)>>,
                           <<Some(<<"x">>), None>> >> >>
    /\ split(page_content.value, "\n") =
           << <<"a", " ", "f", "i">>, <<>>, <<"**Table ", "1", ":**">>, <<>>,
              <<"|", " ", "x", " ", "|", " ", "x", " ", "|">>,
              <<"|", "-", "-", "-", "|", "-", "-", "-", "|">>,
              <<"|", " ", "x", " ", "|", " ", " ", "|">>, <<>>, <<>> >>

---------------------------------------------------------------------------
(* Claims about the scripts around the converters, checked under SpecTool. *)

\* The positions of the commands named cmd, and whether one of them failed
\* or succeeded.
Calls(cmd) == {k \in 1..Len(commands) : commands[k].cmd = cmd}
Failed(cmd) == \E k \in Calls(cmd) : commands[k].result = "failed"
Succeeded(cmd) == \E k \in Calls(cmd) : commands[k].result = "ok"

\* The lines on the terminal after the first n that are not blank.
LinesAfter(n) ==
    SelectSeq(SubSeq(terminal, n + 1, Len(terminal)), LAMBDA l : l # <<>>)

\* The lines that tell the reader that something went wrong.
DiagnosticLine(l) ==
    l[1] \in {"Source not available (paper may be PDF-only)",
              "Failed to extract source: ", "Failed to fetch PDF: ",
              "U+2717 Failed to fetch any materials", "U+2717 Fetching failed",
              "Error: Source directory not found: ",
              "Error: No main .tex file found in ",
              "Error: pandoc not found. Install with: brew install pandoc",
              "Pandoc conversion failed: ", "U+2717 PDF file not found in ",
              "U+2717 LaTeX conversion failed", "U+2717 PDF conversion failed",
              "Error: PDF file not found: ", "Traceback (most recent call last):"}

\* C11: every command that fails is reported: the next line printed after it
\* returned is a diagnostic, and the run does not end without that line.  The
\* statement of the claim; the query of the arXiv API refutes it.
C11_EveryFailureIsReported ==
    \A k \in 1..Len(commands) :
        commands[k].result = "failed" =>
            /\ LinesAfter(commands[k].at) # <<>> =>
                   DiagnosticLine(LinesAfter(commands[k].at)[1])
            /\ ~IsNone(status) => LinesAfter(commands[k].at) # <<>>

\* Whether a run of fetch_paper.py has ended, on the command line or under
\* convert_paper.py, and whether it ended with status 1.
FetchEnded ==
    \/ argv.script = "fetch_paper.py" /\ ~IsNone(status)
    \/ Failed("fetch_paper.py") \/ Succeeded("fetch_paper.py")
FetchExit1 ==
    \/ argv.script = "fetch_paper.py" /\ status = Some(1)
    \/ Failed("fetch_paper.py")

SourceFetchFailed == Failed("curl source") \/ Failed("tar")
SourceObtained == Succeeded("curl source") /\ Succeeded("tar")
PdfObtained == Succeeded("curl pdf")

\* C12 as stated: a failed source fetch is followed by the PDF fetch.  With
\* --source-only it is not.
C12_FailedSourceFallsBack ==
    (FetchEnded /\ SourceFetchFailed) => Calls("curl pdf") # {}

\* C12 amended: no download and no extraction is run twice; unless
\* --source-only is given the PDF is fetched after the source step, whether
\* that step succeeded or failed, and with --source-only a failed source fetch
\* is followed by no PDF fetch; the run ends with status 1 exactly when
\* neither the source nor the PDF was obtained, as when both flags are given
\* and nothing is fetched.
C12_FetchOnceThenPdf ==
    /\ \A c \in {"curl source", "tar", "curl pdf"} : Cardinality(Calls(c)) <= 1
    /\ FetchEnded =>
          /\ Cardinality(Calls("curl source")) = IF argv.pdf_only THEN 0 ELSE 1
          /\ Cardinality(Calls("curl pdf")) = IF argv.source_only THEN 0 ELSE 1
          /\ \A k \in Calls("curl source") \cup Calls("tar") :
                \A j \in Calls("curl pdf") : k < j
          /\ SourceFetchFailed => (Calls("curl pdf") # {} <=> ~argv.source_only)
          /\ FetchExit1 <=> ~SourceObtained /\ ~PdfObtained
          /\ argv.script = "fetch_paper.py" => status \in {Some(0), Some(1)}
          /\ PdfObtained <=> files.pdf
          /\ (argv.pdf_only /\ argv.source_only) =>
                commands = <<>> /\ status = Some(1)

\* C12 witness: the tarball was downloaded but could not be unpacked, the PDF
\* was fetched after it, and fetch_paper.py ended with status 0.
C12_Witness ==
    /\ argv.script = "fetch_paper.py" /\ ~argv.pdf_only /\ ~argv.source_only
    /\ status = Some(0)
    /\ commands = <<Ran("curl source", TRUE, 4), Ran("tar", FALSE, 4),
                    Ran("curl pdf", TRUE, 6)>>

\* The scripts convert_paper.py has started, in order.
Converters == Calls("convert_latex.py") \cup Calls("convert_pdf_simple.py")

\* C17: convert_paper.py starts the fetch script before any converter and at
\* most one converter; after a failed fetch it starts none and ends with
\* status 1; the converter is the LaTeX one exactly when the source directory
\* holds a top-level .tex file and else the PDF one, which needs a PDF file;
\* it ends with status 0 only if every script it started succeeded, with
\* status 1 if the PDF is missing or the converter failed, and a failed LaTeX
\* conversion is followed by no PDF conversion.
C17_FetchThenOneConverter ==
    argv.script = "convert_paper.py" =>
        /\ Cardinality(Converters) <= 1
        /\ Cardinality(Calls("fetch_paper.py")) <= 1
        /\ argv.skip_fetch => Calls("fetch_paper.py") = {}
        /\ \A j \in Converters :
              /\ \A k \in Calls("fetch_paper.py") :
                    k < j /\ commands[k].result = "ok"
              /\ commands[j].cmd = "convert_latex.py" <=> files.source_dir /\ files.tex
              /\ commands[j].cmd = "convert_pdf_simple.py" => files.pdf \/ files.flat_pdf
        /\ Failed("fetch_paper.py") => Converters = {}
        /\ ~IsNone(status) =>
              /\ status \in {Some(0), Some(1)}
              /\ ~argv.skip_fetch => Calls("fetch_paper.py") = {1}
              /\ status = Some(0) <=>
                    /\ Cardinality(Converters) = 1
                    /\ \A k \in Converters \cup Calls("fetch_paper.py") :
                          commands[k].result = "ok"
              /\ Converters = {} <=>
                    \/ Failed("fetch_paper.py")
                    \/ ~(files.source_dir /\ files.tex) /\ ~(files.pdf \/ files.flat_pdf)
              /\ Failed("convert_latex.py") => Calls("convert_pdf_simple.py") = {}

\* C17 witness: source and PDF were fetched, pandoc failed, and the run ended
\* with status 1 without starting the PDF converter.
C17_Witness ==
    /\ argv.script = "convert_paper.py" /\ ~argv.skip_fetch
    /\ status = Some(1)
    /\ files.pdf /\ files.tex
    /\ Succeeded("fetch_paper.py")
    /\ Failed("pandoc") /\ Failed("convert_latex.py")
    /\ Calls("convert_pdf_simple.py") = {}

---------------------------------------------------------------------------
(* Claims about the text functions, checked under SpecText.                *)

Ligatures == {"U+FB01", "U+FB02", "U+FB00"}

\* C13: clean_text applied to its own result returns it unchanged; its result
\* neither starts nor ends with whitespace, holds no two spaces in a row, no
\* newline and no fi, fl or ff ligature; the empty string and None give the
\* empty string.
C13_CleanTextIdempotent ==
    /\ text_call = "clean_text" =>
          LET r == text_result
          IN  /\ (IsNone(text_arg) \/ Get(text_arg) = <<>>) => r = <<>>
              /\ r # <<>> => r[1] \notin Whitespace /\ r[Len(r)] \notin Whitespace
              /\ \A k \in 1..(Len(r) - 1) : ~(r[k] = " " /\ r[k + 1] = " ")
              /\ \A k \in 1..Len(r) : r[k] # "\n" /\ r[k] \notin Ligatures
    /\ text_call = "clean_text(clean_text)" =>
          text_result = IF IsNone(text_arg) THEN <<>> ELSE clean_text(Get(text_arg))

\* C13 witness: " a \n<fi>" was cleaned to "a fi", and cleaning that again
\* gave "a fi".
C13_Witness ==
    /\ text_arg = Some(<<" ", "a", "\n", "U+FB01">>)
    /\ text_call = "clean_text(clean_text)"
    /\ text_result = <<"a", " ", "f", "i">>

\* A text of whitespace alone, the empty string included.
Blank(s) == \A k \in 1..Len(s) : s[k] \in Whitespace

\* C16: is_likely_header and is_likely_footer return False for None, for the
\* empty string and for every text of whitespace alone.
C16_BlankIsNeitherHeaderNorFooter ==
    (/\ text_call \in {"is_likely_header", "is_likely_footer"}
     /\ IsNone(text_arg) \/ Blank(Get(text_arg)))
    => text_result = FALSE

\* C16 witness: is_likely_footer returned False for " \t\n".
C16_Witness ==
    /\ text_arg = Some(<<" ", "\t", "\n">>)
    /\ text_call = "is_likely_footer"
    /\ text_result = FALSE

---------------------------------------------------------------------------
(* Claims about convert_pdf_simple.py, checked under SpecSimple.           *)

\* What the library's loop, lines 272-292, appends to markdown_parts over
\* the first n pages of the file when it is called with pages_to_extract =
\* None and double_column_pages = set().
LibraryParts(n) ==
    Flatten([i \in 1..n |->
        IF skips_page(None, i) THEN <<>>
        ELSE page_parts(i, i \in {},
                        extract_page_content(pdf.pages[i], i, i \in {}))])

SimpleRan == script = "convert_pdf_simple" /\ Converting

\* C21: the standalone converter agrees with the library.  On every page
\* that the standalone converter has processed, its extract_page_content
\* returns what the library's returns with is_double_column = False (or
\* raises what it raises), and the markers and page contents it has appended
\* after the header are, in order, those that the library's loop appends
\* when called without a subset and without double-column pages; the file
\* written ends with the same notes.
C21_SimpleAgreesWithLibrary ==
    SimpleRan =>
        /\ \A i \in 1..(next_page - 1) :
               simple_extract_page_content(pdf.pages[i], i)
                   = extract_page_content(pdf.pages[i], i, FALSE)
        /\ Len(markdown_parts) >= 1
        /\ Tail(markdown_parts) = LibraryParts(next_page - 1)
        /\ pc = "done" =>
               /\ next_page - 1 = Len(pdf.pages)
               /\ Get(output_file) =
                      markdown_parts[1] \o Flatten(LibraryParts(Len(pdf.pages)))
                      \o notes

\* A three-page file is converted: a page of text, a page that cannot be
\* read and a page without text.
C21_Witness ==
    /\ SimpleRan
    /\ pc = "done"
    /\ pdf.pages = <<TextPage, BrokenPage, NewPage>>
    /\ Len(markdown_parts) = 6

\* A page with prose, a header, a page number and two tables is converted.
C21_WitnessTables ==
    /\ SimpleRan
    /\ pc = "done"
    /\ Len(pdf.pages) = 1
    /\ pdf.pages[1].lines
           = <<FooterLine, TextLine, HeaderLine, HeaderLine, FooterLine>>
    /\ Len(pdf.pages[1].tables) = 2
    /\ Len(markdown_parts) = 3

---------------------------------------------------------------------------
(* Claims about split_image_columns, checked under SpecImage.              *)

Width == image.size[1]
Height == image.size[2]
Split == ~IsNone(columns)
\* The box of crop k: left, upper, right, lower.
Box(k) == Get(Get(columns)[k].box)
CropWidth(k) == Get(columns)[k].size[1]
CropHeight(k) == Get(columns)[k].size[2]

\* C22: for a width W >= 0 and k >= 1 columns, split_image_columns returns
\* exactly k crops.  The first starts at 0, each starts where the one before
\* ends, none ends before it starts, and the last ends at W.  The first
\* k - 1 are W div k wide, the last is W - (k - 1) * (W div k) wide, and
\* every crop runs from 0 to the height of the image.
C22_ColumnsPartitionWidth ==
    Split =>
        LET k == num_columns
            W == Width
        IN  /\ Len(Get(columns)) = k
            /\ Box(1)[1] = 0
            /\ Box(k)[3] = W
            /\ \A j \in 1..(k - 1) : Box(j)[3] = Box(j + 1)[1]
            /\ \A j \in 1..k :
                   /\ Box(j)[1] <= Box(j)[3]
                   /\ CropWidth(j) = Box(j)[3] - Box(j)[1]
                   /\ Box(j)[2] = 0
                   /\ Box(j)[4] = Height
                   /\ CropHeight(j) = Height
            /\ \A j \in 1..(k - 1) : CropWidth(j) = W \div k
            /\ CropWidth(k) = W - (k - 1) * (W \div k)

\* An image 11 wide is split in three: widths 3, 3 and 5.
C22_Witness ==
    /\ Split
    /\ image.size = <<11, 2>>
    /\ num_columns = 3
    /\ [j \in 1..3 |-> CropWidth(j)] = <<3, 3, 5>>

\* More columns than pixels: four crops of width 0 and one of width 4.
C22_WitnessNarrow ==
    /\ Split
    /\ Width = 4
    /\ num_columns = 5
    /\ [j \in 1..5 |-> CropWidth(j)] = <<0, 0, 0, 0, 4>>

=============================================================================
